---- MODULE Spec2Model ----
(***************************************************************************)
(* A model of Stella's SDL2 sound back end (src/common/SoundSDL2.cxx): the *)
(* output device engine, its hardware callback, the pull of fragments from *)
(* the AudioQueue through the Resampler, and the volume/mute controls.     *)
(*                                                                         *)
(* SoundSDL2.cxx is modelled statement by statement.  AudioQueue, the      *)
(* Resampler classes, AudioSettings, EmulationTiming and SoundSDL2.hxx are *)
(* not part of the sources at hand; they are modelled from the written     *)
(* specification (sections 2, 3 and 4.1/4.2) and marked so in the map.     *)
(* SDL is an external library, modelled by its documented behaviour: a     *)
(* device is opened paused, SDL_PauseAudioDevice / SDL_LockAudioDevice /   *)
(* SDL_CloseAudioDevice take the device lock the audio thread holds while  *)
(* it runs the callback, and a paused device never runs the callback.      *)
(*                                                                         *)
(* Floats are modelled as exact rationals [n, d]; a resampled sample is    *)
(* counted in Int16 units (the division by 0x7fff is a common unit).       *)
(***************************************************************************)
EXTENDS Integers, Sequences, FiniteSets, TLC

\* ------------------------------------------------------------------ bounds
\* Number of fragments the AudioQueue can hold.
QueueCapacity == 2
\* Samples per (mono) fragment of the AudioQueue.
FragmentSize == 2
\* Largest callback buffer, in stereo frames (len = 8 bytes per frame).
MaxFrames == 2

\* --------------------------------------------------------------- constants
\* nullptr for an Int16* fragment.
NoFragment == 0
\* Bytes per output sample (float): callback() passes len >> 2.
BytesPerSample == 4
\* desired.channels
DesiredChannels == 2
\* Largest accepted volume percent.
MaxPercent == 100

\* Buffers owned by the AudioQueue: the ring, one with the producer, one
\* checked out to the consumer.  A fragment is known by its buffer.
NumBufs == QueueCapacity + 1
BufIds == 1..NumBufs

\* Sample rates (emulation and hardware), in abstract units.
Rates == {1, 2}
Percents == {0, 50, MaxPercent}
BadPercents == {MaxPercent + 1, 2 * MaxPercent}
Qualities == {"nearestNeightbour", "lanczos_2", "lanczos_3"}
FrameLens == {2 * BytesPerSample * k : k \in 1..MaxFrames}

Min(a, b) == IF a < b THEN a ELSE b
Max(a, b) == IF a > b THEN a ELSE b

\* BSPF::clamp
clamp(v, lo, hi) == IF v < lo THEN lo ELSE IF v > hi THEN hi ELSE v

\* ------------------------------------------------------------- AudioQueue
\* The AudioQueue object: the ready fragments in FIFO order, the buffers
\* free for the producer, the overflow tolerance.

\* Sample j (0-based) of the fragment in buffer b: every buffer carries its
\* own non-zero values, so that order, repetition and silence can be told
\* apart in the output.
FragmentSample(b, j) == (b - 1) * FragmentSize + j + 1

AudioQueue_new ==
  [ ready |-> << >>,
    free |-> BufIds,
    ignoreOverflows |-> FALSE ]

\* AudioQueue::size
AudioQueue_size(q) == Len(q.ready)

\* AudioQueue::dequeue(fragment): none when empty (nothing changes); else
\* the head is handed out and `fragment`, the one handed out before, is taken
\* back for recycling.
AudioQueue_dequeue(q, fragment) ==
  IF Len(q.ready) = 0
    THEN [q |-> q, ret |-> NoFragment]
    ELSE [q |-> [q EXCEPT !.ready = Tail(q.ready),
                          !.free = (q.free \cup ({fragment} \ {NoFragment}))
                                     \ {Head(q.ready)}],
          ret |-> Head(q.ready)]

\* AudioQueue::closeSink(fragment): the consumer hands its fragment back.
AudioQueue_closeSink(q, fragment) ==
  [q EXCEPT !.free = q.free \cup ({fragment} \ {NoFragment})]

\* AudioQueue::ignoreOverflows
AudioQueue_ignoreOverflows(q, flag) == [q EXCEPT !.ignoreOverflows = flag]

\* The producer can push when it has a buffer to fill: a free one, or, on
\* overflow, the oldest ready one.
AudioQueue_canEnqueue(q) == q.free # {} \/ Len(q.ready) = QueueCapacity

\* AudioQueue::enqueue: the producer fills a free buffer and appends it; a
\* full queue drops its oldest fragment.
AudioQueue_enqueue(q) ==
  LET full == Len(q.ready) = QueueCapacity
      kept == IF full THEN Tail(q.ready) ELSE q.ready
      pool == IF full THEN q.free \cup {Head(q.ready)} ELSE q.free
      b == CHOOSE x \in pool : \A y \in pool : x <= y
  IN [q EXCEPT !.ready = Append(kept, b),
               !.free = pool \ {b}]

\* ---------------------------------------------------------------- floats
\* A float is an exact rational [n, d]; d > 0.
Float(n, d) == [n |-> n, d |-> d]
FloatEq(a, b) == a.n * b.d = b.n * a.d
FloatMul(a, b) == Float(a.n * b.n, a.d * b.d)
FloatLe(a, b) == a.n * b.d <= b.n * a.d

\* A slot of an output buffer: not yet written, or holding a float.
Unwritten == [w |-> FALSE, v |-> Float(0, 1)]
Written(v) == [w |-> TRUE, v |-> v]

\* -------------------------------------------------------- the state record
\* The operations are functions on a record s holding the object's fields
\* (the names of SoundSDL2.hxx), the AudioQueue object, SDL's state of the
\* primary device and the buffers of the callback cycle in progress.

\* SDL_AudioDeviceID of the primary device once opened (0 is invalid).
PrimaryDeviceId == 2
\* Audio devices SDL_GetNumAudioDevices reports; myDevices adds "Default".
NumAudioDevices == 1

NoResampler == [quality |-> "none"]

\* SDL_AudioDeviceID of the overlay (WAV) device once opened.
WavDeviceId == 3
\* A uInt8* into a WAV buffer: the allocation and the offset in it; nullptr.
WavPos(buf, off) == [buf |-> buf, off |-> off]
NullPos == WavPos(0, 0)
\* What the last playWav was called with and returned (and whether it had to
\* load the file and SDL_LoadWAV failed), and which bytes the last
\* wavCallback mixed into its stream, at which volume; none.
NoWavCall ==
  [ fileName |-> "", position |-> 0, length |-> 0,
    loadFailed |-> FALSE, ret |-> FALSE ]
NoWavMixed == [pos |-> NullPos, len |-> 0, volume |-> Float(0, 1)]
\* The playback in progress: the arguments of the playWav that started it,
\* the length of the buffer it found, and the offsets of the bytes the
\* wavCallback cycles have mixed since it set the remaining length, in the
\* order mixed; none when the last playWav returned false.
NoWavPlayed ==
  [ on |-> FALSE, position |-> 0, length |-> 0, total |-> 0, bytes |-> << >> ]

\* myAudioQueue->fragmentSize(), myAudioQueue->isStereo()
AudioQueue_fragmentSize == FragmentSize
AudioQueue_isStereo == FALSE

\* The member initialisers of SoundSDL2.hxx.
Members(settings) ==
  [ myAudioSettings |-> settings,
    myIsInitializedFlag |-> FALSE,
    myDevice |-> 0,
    myDeviceId |-> 0,
    myHardwareSpec |-> [freq |-> 0, samples |-> 0, channels |-> 0],
    myVolume |-> MaxPercent,
    myVolumeFactor |-> Float(MaxPercent, MaxPercent),
    myWavVolumeFactor |-> Float(65535, 1),
    myMuteState |-> FALSE,
    myAudioQueue |-> FALSE,
    myUnderrun |-> FALSE,
    myCurrentFragment |-> NoFragment,
    myResampler |-> NoResampler,
    myEmulationTiming |-> [prebufferFragmentCount |-> 1, audioSampleRate |-> 1],
    audioQueue |-> AudioQueue_new,
    sdlStatus |-> "stopped",
    devLock |-> FALSE,
    stream |-> << >>,
    filled |-> << >>,
    pullLog |-> << >>,
    ret |-> NoFragment,
    ub |-> "trap",
    sdlAudio |-> FALSE,
    error |-> "none",
    crashed |-> FALSE,
    myWavDevice |-> 0,
    myWavBuffer |-> 0,
    myWavLength |-> 0,
    myWavLen |-> 0,
    myWavPos |-> NullPos,
    myWavFilename |-> "",
    wavStatus |-> "stopped",
    wavHeap |-> 0,
    wavCall |-> NoWavCall,
    wavMixed |-> NoWavMixed,
    wavPlayed |-> NoWavPlayed ]

\* ------------------------------------------------------------------- SDL
\* SDL_GetAudioDeviceStatus(myDevice) == SDL_AUDIO_PAUSED
SDL_isPaused(s) == s.myDevice # 0 /\ s.sdlStatus = "paused"

\* SDL_PauseAudioDevice(myDevice, pause_on); no effect on an invalid id.
SDL_PauseAudioDevice(s, pause_on) ==
  IF s.myDevice # 0 /\ s.sdlStatus # "stopped"
    THEN [s EXCEPT !.sdlStatus = IF pause_on THEN "paused" ELSE "playing"]
    ELSE s

\* SDL_CloseAudioDevice(myDevice)
SDL_CloseAudioDevice(s) == [s EXCEPT !.sdlStatus = "stopped"]

\* SDL_OpenAudioDevice(device, 0, &desired, &myHardwareSpec,
\* SDL_AUDIO_ALLOW_FREQUENCY_CHANGE): on success the device is paused and
\* the obtained spec is written (only the frequency may differ from the
\* desired one); on failure, as always when the audio subsystem is not
\* initialised, the id is 0.
SDL_OpenAudioDevice(s, desired, ok, freq) ==
  IF ok /\ s.sdlAudio
    THEN [s EXCEPT !.myDevice = PrimaryDeviceId,
                   !.sdlStatus = "paused",
                   !.myHardwareSpec = [desired EXCEPT !.freq = freq]]
    ELSE [s EXCEPT !.myDevice = 0]

\* ------------------------------------------------------- SDL and WAV files
\* Largest WAV file, in bytes.
MaxWavLength == 3
WavFiles == {"a.wav", "b.wav"}
\* The length SDL_LoadWAV reports for a file.
WavFileLength(fileName) ==
  IF fileName = "a.wav" THEN MaxWavLength - 1 ELSE MaxWavLength
\* The buffer a new allocation gets: not the one allocated last.
NewWavBuffer(s) == IF s.wavHeap = 1 THEN 2 ELSE 1

\* SDL_FreeWAV(myWavBuffer); myWavBuffer = nullptr
SDL_FreeWAV(s) == [s EXCEPT !.myWavBuffer = 0]

\* SDL_LoadWAV(fileName, &myWavSpec, &myWavBuffer, &myWavLength): a new
\* buffer and its length on success; on failure no buffer (the length is
\* not read again before the next successful load).
SDL_LoadWAV(s, fileName, ok) ==
  IF ok
    THEN [s EXCEPT !.myWavBuffer = NewWavBuffer(s),
                   !.wavHeap = NewWavBuffer(s),
                   !.myWavLength = WavFileLength(fileName)]
    ELSE [s EXCEPT !.myWavBuffer = 0]

\* ------------------------------------------------- the pull from the Queue
\* A closure that leaves underrun only when the Queue holds more than
\* prebufferFragmentCount fragments.
nextFragmentCallback_strict(s) ==
  LET d == IF s.myUnderrun
             THEN IF AudioQueue_size(s.audioQueue)
                       > s.myEmulationTiming.prebufferFragmentCount
                    THEN AudioQueue_dequeue(s.audioQueue, s.myCurrentFragment)
                    ELSE [q |-> s.audioQueue, ret |-> NoFragment]
             ELSE AudioQueue_dequeue(s.audioQueue, s.myCurrentFragment)
  IN [s EXCEPT !.audioQueue = d.q,
               !.myUnderrun = (d.ret = NoFragment),
               !.myCurrentFragment =
                  IF d.ret # NoFragment THEN d.ret ELSE @,
               !.ret = d.ret]

\* A closure without the prebuffer test: it dequeues whatever the flag.
nextFragmentCallback_eager(s) ==
  LET d == AudioQueue_dequeue(s.audioQueue, s.myCurrentFragment)
  IN [s EXCEPT !.audioQueue = d.q,
               !.myUnderrun = (d.ret = NoFragment),
               !.myCurrentFragment =
                  IF d.ret # NoFragment THEN d.ret ELSE @,
               !.ret = d.ret]

\* A closure that lets go of the checked-out fragment when the Queue yields
\* none.
nextFragmentCallback_forget(s) ==
  LET d == IF s.myUnderrun
             THEN IF AudioQueue_size(s.audioQueue)
                       >= s.myEmulationTiming.prebufferFragmentCount
                    THEN AudioQueue_dequeue(s.audioQueue, s.myCurrentFragment)
                    ELSE [q |-> s.audioQueue, ret |-> NoFragment]
             ELSE AudioQueue_dequeue(s.audioQueue, s.myCurrentFragment)
  IN [s EXCEPT !.audioQueue = d.q,
               !.myUnderrun = (d.ret = NoFragment),
               !.myCurrentFragment = d.ret,
               !.ret = d.ret]

\* The closure nextFragmentCallback of initResampler: prebuffer hysteresis,
\* then the underrun flag and the checked-out fragment.  The fragment
\* returned is left in s.ret.
nextFragmentCallback(s) ==
  LET d == IF s.myUnderrun
             THEN IF AudioQueue_size(s.audioQueue)
                       >= s.myEmulationTiming.prebufferFragmentCount
                    THEN AudioQueue_dequeue(s.audioQueue, s.myCurrentFragment)
                    ELSE [q |-> s.audioQueue, ret |-> NoFragment]
             ELSE AudioQueue_dequeue(s.audioQueue, s.myCurrentFragment)
      nextFragment == d.ret
  IN [s EXCEPT !.audioQueue = d.q,
               !.myUnderrun = (nextFragment = NoFragment),
               !.myCurrentFragment =
                  IF nextFragment # NoFragment THEN nextFragment ELSE @,
               !.ret = nextFragment]

\* One invocation of the closure by the Resampler, with what an observer of
\* the call sees written to the log of the cycle: how many samples of the
\* buffer were written when it was made, the flag, the Queue and the
\* checked-out fragment before and after, and the fragment returned.
Pull(s) ==
  LET t == nextFragmentCallback(s)
  IN [t EXCEPT !.pullLog = Append(s.pullLog,
        [ at |-> Cardinality({i \in DOMAIN s.stream : s.stream[i].w}),
          underrun |-> s.myUnderrun,
          ready |-> s.audioQueue.ready,
          prev |-> s.myCurrentFragment,
          ret |-> t.ret,
          readyAfter |-> t.audioQueue.ready,
          freeAfter |-> t.audioQueue.free,
          cur |-> t.myCurrentFragment,
          underrunAfter |-> t.myUnderrun ])]

\* -------------------------------------------------------------- Resampler
\* Resampler::Format
Format(sampleRate, fragmentSize, stereo) ==
  [sampleRate |-> sampleRate, fragmentSize |-> fragmentSize, stereo |-> stereo]

\* A Resampler as constructed: position 0, no fragment checked out, nothing
\* to hold yet.  a is the kernel half-width (0: nearest neighbour).
Resampler_new(quality, a, formatFrom, formatTo) ==
  [ quality |-> quality, a |-> a,
    formatFrom |-> formatFrom, formatTo |-> formatTo,
    timeIndex |-> 0, fragmentIndex |-> 0,
    cur |-> NoFragment, last |-> 0 ]

\* The Lanczos kernel sinc(x) sinc(x/a) in thousandths, x = n6 / 6, |x| < a.
LanczosTable(a) ==
  IF a = 2
    THEN << 944, 790, 573, 342, 141, 0, -72, -85, -64, -32, -8, 0 >>
    ELSE << 950, 810, 608, 381, 168, 0, -105, -146, -135, -93, -42, 0,
            25, 31, 24, 13, 3, 0 >>

LanczosKernel(a, n6) ==
  LET m == IF n6 < 0 THEN 0 - n6 ELSE n6
  IN IF m = 0 THEN 1000
     ELSE IF m >= 6 * a \/ m > Len(LanczosTable(a)) THEN 0
     ELSE LanczosTable(a)[m]

\* The source sample at index k of the checked-out fragment, k clamped to
\* the fragment.
SourceSample(s, k) ==
  LET r == s.myResampler
  IN FragmentSample(r.cur, clamp(k, 0, r.formatFrom.fragmentSize - 1))

\* The resampled value at the current position: the nearest source sample,
\* or the kernel-weighted sum of the 2a samples around the position.
ResampledValue(s) ==
  LET r == s.myResampler
      to == r.formatTo.sampleRate
      \* the position in sixths of a source sample
      pos6 == 6 * r.fragmentIndex
                + (IF to > 0 THEN (6 * r.timeIndex) \div to ELSE 0)
      RECURSIVE Taps(_)
      Taps(k) == IF k > r.fragmentIndex + r.a THEN 0
                 ELSE LanczosKernel(r.a, pos6 - 6 * k) * SourceSample(s, k)
                        + Taps(k + 1)
  IN IF r.a = 0
       THEN SourceSample(s, r.fragmentIndex)
       ELSE Taps(r.fragmentIndex - r.a + 1) \div 1000

\* The position advanced by formatFrom.sampleRate / formatTo.sampleRate.
\* A Format promises a positive rate; with formatTo.sampleRate = 0 the
\* division is undefined: the build either traps (see ProduceFrame) or
\* yields quotient 0 and leaves the position where it is.
Advance(r) ==
  LET t == r.timeIndex + r.formatFrom.sampleRate
      to == r.formatTo.sampleRate
  IN IF to > 0
       THEN [r EXCEPT !.timeIndex = t % to,
                      !.fragmentIndex = @ + t \div to]
       ELSE r

\* A frame production that writes silence while no fragment is checked out.
ProduceFrame_silence(s, slot) ==
  LET r == s.myResampler
      ch == IF r.formatTo.stereo THEN 2 ELSE 1
      v == IF r.cur = NoFragment THEN 0 ELSE ResampledValue(s)
      out == [i \in 1..Len(s.stream) |->
                IF i >= slot /\ i < slot + ch THEN Written(Float(v, 1))
                ELSE s.stream[i]]
      r1 == IF r.cur = NoFragment THEN r
            ELSE [Advance(r) EXCEPT !.last = v]
      s1 == [s EXCEPT !.stream = out, !.myResampler = r1]
  IN IF r.cur # NoFragment /\ r.formatTo.sampleRate <= 0 /\ s.ub = "trap"
       THEN [s EXCEPT !.crashed = TRUE]
     ELSE IF r.cur = NoFragment \/ r1.fragmentIndex < r1.formatFrom.fragmentSize
       THEN s1
       ELSE LET p == Pull(s1)
            IN [p EXCEPT !.myResampler.fragmentIndex =
                             @ % r1.formatFrom.fragmentSize,
                         !.myResampler.cur = p.ret]

\* One output frame: hold the last value when no fragment is checked out;
\* else emit the value at the position, advance, and pull the next fragment
\* when the position has left the fragment.
ProduceFrame(s, slot) ==
  LET r == s.myResampler
      ch == IF r.formatTo.stereo THEN 2 ELSE 1
      v == IF r.cur = NoFragment THEN r.last ELSE ResampledValue(s)
      out == [i \in 1..Len(s.stream) |->
                IF i >= slot /\ i < slot + ch THEN Written(Float(v, 1))
                ELSE s.stream[i]]
      r1 == IF r.cur = NoFragment THEN r
            ELSE [Advance(r) EXCEPT !.last = v]
      s1 == [s EXCEPT !.stream = out, !.myResampler = r1]
  IN IF r.cur # NoFragment /\ r.formatTo.sampleRate <= 0 /\ s.ub = "trap"
       THEN [s EXCEPT !.crashed = TRUE]
     ELSE IF r.cur = NoFragment \/ r1.fragmentIndex < r1.formatFrom.fragmentSize
       THEN s1
       ELSE LET p == Pull(s1)
            IN [p EXCEPT !.myResampler.fragmentIndex =
                             @ % r1.formatFrom.fragmentSize,
                         !.myResampler.cur = p.ret]

RECURSIVE FillFrames(_, _, _)
FillFrames(s, i, frames) ==
  IF i >= frames \/ s.crashed THEN s
  ELSE LET ch == IF s.myResampler.formatTo.stereo THEN 2 ELSE 1
       IN FillFrames(ProduceFrame(s, i * ch + 1), i + 1, frames)

\* A fillFragment that reads the checked-out fragment from its start in
\* every call.
fillFragment_rewind(s, length) ==
  LET r == s.myResampler
      ch == IF r.formatTo.stereo THEN 2 ELSE 1
      s0 == IF r.cur # NoFragment
              THEN [s EXCEPT !.myResampler.fragmentIndex = 0]
            ELSE LET p == Pull(s)
                 IN IF p.ret = NoFragment THEN p
                    ELSE [p EXCEPT !.myResampler.cur = p.ret,
                                   !.myResampler.fragmentIndex = 0]
  IN FillFrames(s0, 0, length \div ch)

\* Resampler::fillFragment(fragment, length): with no fragment checked out
\* it first asks for one and reads it from its start; then it produces
\* length samples, frame by frame.
fillFragment(s, length) ==
  LET r == s.myResampler
      ch == IF r.formatTo.stereo THEN 2 ELSE 1
      s0 == IF r.cur # NoFragment THEN s
            ELSE LET p == Pull(s)
                 IN IF p.ret = NoFragment THEN p
                    ELSE [p EXCEPT !.myResampler.cur = p.ret,
                                   !.myResampler.fragmentIndex = 0]
  IN FillFrames(s0, 0, length \div ch)

\* ------------------------------------------------------ the callback cycle
\* A processFragment that scales the buffer twice.
processFragment_twice(s, length) ==
  LET f == fillFragment(s, length)
  IN [f EXCEPT !.filled = f.stream,
               !.stream = [i \in 1..Len(f.stream) |->
                  [f.stream[i] EXCEPT
                     !.v = FloatMul(FloatMul(@, f.myVolumeFactor),
                                    f.myVolumeFactor)]]]

\* SoundSDL2::processFragment(stream, length), first statement: the
\* Resampler fills the buffer (a call through an empty myResampler crashes).
processFragment_fill(s, length) ==
  IF s.myResampler.quality = "none"
    THEN [s EXCEPT !.crashed = TRUE]
    ELSE fillFragment(s, length)

\* SoundSDL2::processFragment(stream, length), the loop: every sample is
\* multiplied by myVolumeFactor; filled keeps what the Resampler wrote.
processFragment_scale(f, length) ==
  IF f.crashed THEN f
  ELSE [f EXCEPT !.filled = f.stream,
                 !.stream = [i \in 1..Len(f.stream) |->
                    IF i <= length
                      THEN [f.stream[i] EXCEPT
                              !.v = FloatMul(@, f.myVolumeFactor)]
                      ELSE f.stream[i]]]

\* SoundSDL2::processFragment(stream, length)
processFragment(s, length) ==
  processFragment_scale(processFragment_fill(s, length), length)

\* SDL_memset(stream, 0, len)
SDL_memset(s, len) ==
  [s EXCEPT !.stream = [i \in 1..Len(s.stream) |->
      IF BytesPerSample * i <= len THEN Written(Float(0, 1)) ELSE s.stream[i]]]

\* The buffer of len bytes the audio thread hands to the callback, unwritten;
\* ub is what the build makes of an undefined operation met in the cycle.
callback_enter(s, len, ub) ==
  [s EXCEPT !.stream = [i \in 1..(len \div BytesPerSample) |-> Unwritten],
            !.filled = << >>,
            !.pullLog = << >>,
            !.ub = ub]

\* A callback that does not look at myAudioQueue.
callback_unguarded(s, len, ub) ==
  processFragment(callback_enter(s, len, ub), len \div 4)

\* SoundSDL2::callback(udata, stream, len)
callback(s, len, ub) ==
  LET b == callback_enter(s, len, ub)
  IN IF b.myAudioQueue
       THEN processFragment(b, len \div 4)
       ELSE SDL_memset(b, len)

\* ------------------------------------------------ statements of SoundSDL2
\* A method is a sequence of statements; a statement [l, skip, a] is a
\* label, the number of statements its guard jumps over when it fails (an
\* early return jumps over the rest), and its arguments.
NoArg == [p |-> 0, b |-> FALSE, freq |-> 0, pre |-> 0, rate |-> 0, junk |-> 0]
Stmt(l, skip, a) == [l |-> l, skip |-> skip, a |-> a]

\* A mute that reports whether the stream was running.
mute_oldstate_running(s) == s.myDevice # 0 /\ s.sdlStatus = "playing"

\* A mute that lets go of the checked-out fragment when it pauses.
mute_forgetful(s, state) ==
  IF s.myIsInitializedFlag
    THEN [SDL_PauseAudioDevice(s, state) EXCEPT
            !.myCurrentFragment = IF state THEN NoFragment ELSE @]
    ELSE s

\* SoundSDL2::mute(state): the value returned, and the effect.
mute_oldstate(s) == SDL_isPaused(s)
mute(s, state) ==
  LET p == IF s.myIsInitializedFlag THEN SDL_PauseAudioDevice(s, state)
           ELSE s
  IN IF p.myWavDevice # 0
       THEN [p EXCEPT !.wavStatus = IF state THEN "paused" ELSE "playing"]
       ELSE p

\* SoundSDL2::setEnabled(enable)
setEnabled(s, enable) ==
  LET muteState == ~enable
  IN [s EXCEPT !.myAudioSettings.enabled = enable,
               !.audioQueue = IF s.myAudioQueue
                                THEN AudioQueue_ignoreOverflows(@, ~enable)
                                ELSE @,
               !.myMuteState = muteState,
               !.myWavVolumeFactor =
                  IF muteState THEN Float(0, 1) ELSE s.myVolumeFactor]

\* The percent a setVolume statement works on: the caller's literal, or
\* myAudioSettings.volume() when open() makes the call.
PercentOf(st, s) == IF st.a.b THEN s.myAudioSettings.volume ELSE st.a.p

\* The desired SDL_AudioSpec of openDevice.
Desired(s) ==
  [ freq |-> s.myAudioSettings.sampleRate,
    samples |-> s.myAudioSettings.fragmentSize,
    channels |-> DesiredChannels ]

\* An initResampler that falls back to nearest neighbour.
initResampler_fallback(s) ==
  LET formatFrom == Format(s.myEmulationTiming.audioSampleRate,
                           AudioQueue_fragmentSize, AudioQueue_isStereo)
      formatTo == Format(s.myHardwareSpec.freq, s.myHardwareSpec.samples,
                         s.myHardwareSpec.channels > 1)
      quality == s.myAudioSettings.resamplingQuality
      a == CASE quality = "lanczos_2" -> 2
             [] quality = "lanczos_3" -> 3
             [] OTHER -> 0
  IN [s EXCEPT !.myResampler = Resampler_new(quality, a, formatFrom, formatTo)]

\* The switch of initResampler over myAudioSettings.resamplingQuality().
initResampler(s) ==
  LET formatFrom == Format(s.myEmulationTiming.audioSampleRate,
                           AudioQueue_fragmentSize, AudioQueue_isStereo)
      formatTo == Format(s.myHardwareSpec.freq, s.myHardwareSpec.samples,
                         s.myHardwareSpec.channels > 1)
      quality == s.myAudioSettings.resamplingQuality
  IN CASE quality = "nearestNeightbour" ->
            [s EXCEPT !.myResampler =
               Resampler_new(quality, 0, formatFrom, formatTo)]
       [] quality = "lanczos_2" ->
            [s EXCEPT !.myResampler =
               Resampler_new(quality, 2, formatFrom, formatTo)]
       [] quality = "lanczos_3" ->
            [s EXCEPT !.myResampler =
               Resampler_new(quality, 3, formatFrom, formatTo)]
       [] OTHER -> [s EXCEPT !.error = "invalid resampling quality"]

\* The condition of open() under which the device is opened again.
NeedReopen(s) ==
  \/ s.myAudioSettings.sampleRate # s.myHardwareSpec.freq
  \/ s.myAudioSettings.fragmentSize # s.myHardwareSpec.samples
  \/ s.myAudioSettings.device # s.myDeviceId

\* Guards with a setVolume that does not test the range of percent.
GuardFails_anyPercent(st, s) ==
  CASE st.l = "close_guard" -> ~s.myIsInitializedFlag
    [] st.l = "setVolume_guard" -> ~s.myIsInitializedFlag
    [] st.l = "open_needReopen" -> ~NeedReopen(s)
    [] st.l = "open_enabledGuard" -> ~s.myAudioSettings.enabled
    [] OTHER -> FALSE

\* Whether the guard of statement st fails in s (its skip is then taken).
GuardFails(st, s) ==
  CASE st.l = "close_guard" -> ~s.myIsInitializedFlag
    [] st.l = "setVolume_guard" ->
         ~(s.myIsInitializedFlag /\ PercentOf(st, s) <= MaxPercent)
    [] st.l = "open_needReopen" -> ~NeedReopen(s)
    [] st.l = "open_enabledGuard" -> ~s.myAudioSettings.enabled
    [] st.l = "initResampler" ->
         s.myAudioSettings.resamplingQuality \notin Qualities
    [] st.l = "playWav_reload" ->
         ~(st.a.fileName # s.myWavFilename \/ s.myWavBuffer = 0)
    [] st.l = "playWav_load" -> ~st.a.load
    [] st.l = "playWav_check" -> st.a.position > s.myWavLength
    [] OTHER -> FALSE

\* The effect of statement st on s.
Exec(st, s) ==
  CASE st.l = "close_mute" ->
         [mute(s, TRUE) EXCEPT !.myMuteState = mute_oldstate(s)]
    [] st.l = "close_closeSink" ->
         IF s.myAudioQueue
           THEN [s EXCEPT !.audioQueue =
                   AudioQueue_closeSink(@, s.myCurrentFragment)]
           ELSE s
    [] st.l = "close_reset" -> [s EXCEPT !.myAudioQueue = FALSE]
    [] st.l = "close_clear" -> [s EXCEPT !.myCurrentFragment = NoFragment]
    [] st.l = "mute" -> mute(s, st.a.b)
    [] st.l = "setEnabled" -> setEnabled(s, st.a.b)
    [] st.l = "setVolume_store" ->
         [s EXCEPT !.myAudioSettings.volume = PercentOf(st, s),
                   !.myVolume = PercentOf(st, s)]
    [] st.l = "setVolume_lock" ->
         [s EXCEPT !.devLock = (s.myDevice # 0 /\ s.sdlStatus # "stopped")]
    [] st.l = "setVolume_factor" ->
         LET f == Float(PercentOf(st, s), 100)
         IN [s EXCEPT !.myVolumeFactor = f,
                      !.myWavVolumeFactor =
                         IF s.myAudioSettings.enabled THEN f ELSE Float(0, 1)]
    [] st.l = "setVolume_unlock" -> [s EXCEPT !.devLock = FALSE]
    [] st.l = "openDevice_close" ->
         IF s.myIsInitializedFlag THEN SDL_CloseAudioDevice(s) ELSE s
    [] st.l = "openDevice_clamp" ->
         [s EXCEPT !.myDeviceId =
            clamp(s.myAudioSettings.device, 0, (NumAudioDevices + 1) - 1)]
    [] st.l = "openDevice_open" ->
         LET o == SDL_OpenAudioDevice(s, Desired(s), st.a.b, st.a.freq)
         IN [o EXCEPT !.myIsInitializedFlag = (o.myDevice # 0)]
    [] st.l = "open_timing" ->
         [s EXCEPT !.myEmulationTiming =
            [prebufferFragmentCount |-> st.a.pre,
             audioSampleRate |-> st.a.rate]]
    [] st.l = "open_mute" -> mute(s, TRUE)
    [] st.l = "open_ignoreOverflows" ->
         [s EXCEPT !.audioQueue =
            AudioQueue_ignoreOverflows(@, ~s.myAudioSettings.enabled)]
    [] st.l = "open_bind" ->
         [s EXCEPT !.myAudioQueue = TRUE,
                   !.myUnderrun = TRUE,
                   !.myCurrentFragment = NoFragment]
    [] st.l = "initResampler" -> initResampler(s)
    [] st.l = "open_unmute" -> mute(s, s.myMuteState)
    [] st.l = "playWav_reload" ->
         [s EXCEPT !.wavCall = [fileName |-> st.a.fileName,
                                position |-> st.a.position,
                                length |-> st.a.length,
                                loadFailed |-> FALSE, ret |-> FALSE],
                   !.wavPlayed = NoWavPlayed]
    [] st.l = "playWav_free" ->
         IF s.myWavBuffer # 0 THEN SDL_FreeWAV(s) ELSE s
    [] st.l = "playWav_load" ->
         [SDL_LoadWAV(s, st.a.fileName, st.a.load) EXCEPT
            !.wavCall.loadFailed = ~st.a.load]
    [] st.l = "playWav_name" -> [s EXCEPT !.myWavFilename = st.a.fileName]
    [] st.l = "playWav_len" ->
         [s EXCEPT !.myWavLen =
                      IF st.a.length # 0
                        THEN Min(st.a.length, s.myWavLength - st.a.position)
                        ELSE s.myWavLength,
                   !.wavPlayed =
                      [on |-> TRUE, position |-> st.a.position,
                       length |-> st.a.length,
                       total |-> s.myWavLength, bytes |-> << >>]]
    [] st.l = "playWav_pos" ->
         [s EXCEPT !.myWavPos = WavPos(s.myWavBuffer, st.a.position)]
    [] st.l = "playWav_open" ->
         LET o == IF s.myWavDevice = 0 /\ st.a.open
                    THEN [s EXCEPT !.myWavDevice = WavDeviceId,
                                   !.wavStatus = "playing"]
                    ELSE s
         IN IF o.myWavDevice # 0
              THEN [o EXCEPT !.wavCall.ret = TRUE]
              ELSE [o EXCEPT !.wavPlayed = NoWavPlayed]
    [] OTHER -> s

\* Statements that take SDL's lock of the primary device (and so wait for a
\* running callback): SDL_PauseAudioDevice, SDL_LockAudioDevice and
\* SDL_CloseAudioDevice on a valid device.
TakesDeviceLock(st, s) ==
  /\ s.myDevice # 0 /\ s.sdlStatus # "stopped"
  /\ \/ st.l \in {"close_mute", "mute", "open_mute", "open_unmute",
                  "openDevice_close"} /\ s.myIsInitializedFlag
     \/ st.l = "setVolume_lock"

\* A close() that detaches the Queue before it pauses the stream.
closeProg_detachFirst ==
  << Stmt("close_guard", 4, NoArg),
     Stmt("close_closeSink", 0, NoArg),
     Stmt("close_reset", 0, NoArg),
     Stmt("close_clear", 0, NoArg),
     Stmt("close_mute", 0, NoArg) >>

\* SoundSDL2::close()
closeProg ==
  << Stmt("close_guard", 4, NoArg),
     Stmt("close_mute", 0, NoArg),
     Stmt("close_closeSink", 0, NoArg),
     Stmt("close_reset", 0, NoArg),
     Stmt("close_clear", 0, NoArg) >>

\* SoundSDL2::mute(state), SoundSDL2::setEnabled(enable)
muteProg(a) == << Stmt("mute", 0, a) >>
setEnabledProg(a) == << Stmt("setEnabled", 0, a) >>

\* A setVolume that writes the factors without the device lock.
setVolumeProg_unlocked(a) ==
  << Stmt("setVolume_guard", 2, a),
     Stmt("setVolume_store", 0, a),
     Stmt("setVolume_factor", 0, a) >>

\* SoundSDL2::setVolume(percent)
setVolumeProg(a) ==
  << Stmt("setVolume_guard", 4, a),
     Stmt("setVolume_store", 0, a),
     Stmt("setVolume_lock", 0, a),
     Stmt("setVolume_factor", 0, a),
     Stmt("setVolume_unlock", 0, a) >>

\* SoundSDL2::openDevice(); a carries SDL's answer.
openDeviceProg(a) ==
  << Stmt("openDevice_close", 0, a),
     Stmt("openDevice_clamp", 0, a),
     Stmt("openDevice_open", 0, a) >>

\* SoundSDL2::open(audioQueue, emulationTiming); a carries the timing and
\* SDL's answer should the device be opened again.
openProg(a) ==
  << Stmt("open_needReopen", 3, a) >>
  \o openDeviceProg(a)
  \o << Stmt("open_timing", 0, a),
        Stmt("open_mute", 0, a),
        Stmt("open_ignoreOverflows", 0, a),
        Stmt("open_enabledGuard", 8, a),
        Stmt("open_bind", 0, a) >>
  \o setVolumeProg([a EXCEPT !.b = TRUE])
  \o << Stmt("initResampler", 1, a),
        Stmt("open_unmute", 0, a) >>

\* SoundSDL2::playWav(fileName, position, length) statement by statement:
\* the test for a reload, SDL_FreeWAV, SDL_LoadWAV and its early return, the
\* test of position and its early return, then the assignments to
\* myWavFilename, myWavLen and myWavPos and the opening of the device.  a
\* carries the arguments and SDL's answers.
WavArg(fileName, position, length, sdl) ==
  [ fileName |-> fileName, position |-> position, length |-> length,
    load |-> sdl.load, open |-> sdl.open ]
playWavProg(a) ==
  << Stmt("playWav_reload", 2, a),
     Stmt("playWav_free", 0, a),
     Stmt("playWav_load", 5, a),
     Stmt("playWav_check", 4, a),
     Stmt("playWav_name", 0, a),
     Stmt("playWav_len", 0, a),
     Stmt("playWav_pos", 0, a),
     Stmt("playWav_open", 0, a) >>

\* What is left of a program after its first statement ran in s.
Rest(prog, s) ==
  LET st == Head(prog)
      k == IF GuardFails(st, s) THEN st.skip ELSE 0
      rest == Tail(prog)
  IN SubSeq(rest, Min(k, Len(rest)) + 1, Len(rest))

\* A program run to its end without interruption.
RECURSIVE Run(_, _)
Run(prog, s) ==
  IF prog = << >> THEN s
  ELSE Run(Rest(prog, s), Exec(Head(prog), s))

close(s) == Run(closeProg, s)
\* A setVolume that stores the percent and leaves the factors alone.
setVolume_storeOnly(s, percent) ==
  Run(SubSeq(setVolumeProg([NoArg EXCEPT !.p = percent]), 1, 2), s)

setVolume(s, percent) == Run(setVolumeProg([NoArg EXCEPT !.p = percent]), s)
openDevice(s, a) == Run(openDeviceProg(a), s)
\* An open that leaves the engine out of underrun.
open_running(s, a) == [Run(openProg(a), s) EXCEPT !.myUnderrun = FALSE]
open(s, a) == Run(openProg(a), s)

\* myOSystem.console().initializeAudio(), as toggleMute and adjustVolume call
\* it.  The Console is outside the sources at hand: it either goes through
\* SoundSDL2::open with a Queue and a timing (reinit; a carries the timing
\* and SDL's answer) or leaves the engine alone.
initializeAudio(s, reinit, a) == IF reinit THEN open(s, a) ELSE s

\* A toggleMute that leaves the stream as it finds it.
toggleMute_settingOnly(s, reinit, a) ==
  LET enabled == ~s.myAudioSettings.enabled
      s1 == initializeAudio(setEnabled(s, enabled), reinit, a)
  IN [s1 EXCEPT !.myMuteState = ~enabled, !.sdlStatus = s.sdlStatus]

\* A toggleMute that leaves the overlay device as mute() left it.
toggleMute_overlayMuted(s, reinit, a) ==
  LET enabled == ~s.myAudioSettings.enabled
      s1 == initializeAudio(setEnabled(s, enabled), reinit, a)
  IN IF s1.error # "none" THEN s1
     ELSE mute([s1 EXCEPT !.myMuteState = ~enabled], ~enabled)

\* SoundSDL2::toggleMute(): the value it returns, and its effect.  An
\* exception out of initializeAudio ends the method there.
toggleMute_enabled(s) == ~s.myAudioSettings.enabled
toggleMute(s, reinit, a) ==
  LET enabled == ~s.myAudioSettings.enabled
      s1 == initializeAudio(setEnabled(s, enabled), reinit, a)
      s2 == mute([s1 EXCEPT !.myMuteState = ~enabled], ~enabled)
  IN IF s1.error # "none" THEN s1
     ELSE IF s2.myWavDevice # 0 THEN [s2 EXCEPT !.wavStatus = "playing"]
     ELSE s2

\* SoundSDL2::adjustVolume(direction)
adjustVolume(s, direction, reinit, a) ==
  LET percent == clamp(s.myVolume + direction * 2, 0, 100)
      enabled == s.myAudioSettings.enabled
      s1 == initializeAudio(setEnabled(s, TRUE), reinit, a)
      s2 == IF percent > 0 /\ direction # 0 /\ ~enabled
              THEN mute([s1 EXCEPT !.myMuteState = FALSE], FALSE)
              ELSE s
  IN IF percent > 0 /\ direction # 0 /\ ~enabled /\ s1.error # "none"
       THEN s1
       ELSE setVolume(s2, percent)

\* SoundSDL2::SoundSDL2(osystem, audioSettings): sdlOk is the answer of
\* SDL_InitSubSystem, a that of SDL_OpenAudioDevice. When SDL_InitSubSystem
\* fails the constructor returns before SDL_zero(myHardwareSpec), and the
\* member holds whatever value a.junk the memory had.
SoundSDL2(settings, sdlOk, a) ==
  LET s0 == Members(settings)
      s1 == openDevice([s0 EXCEPT !.sdlAudio = TRUE], a)
      s2 == mute(s1, TRUE)
      muteState == ~settings.enabled
  IN IF ~sdlOk
       THEN [s0 EXCEPT !.myHardwareSpec =
                         [freq |-> a.junk, samples |-> a.junk, channels |-> 0]]
     ELSE IF ~s1.myIsInitializedFlag THEN s1
     ELSE [s2 EXCEPT !.myMuteState = muteState,
                     !.myWavVolumeFactor =
                        IF muteState THEN Float(0, 1) ELSE s2.myVolumeFactor]

\* ------------------------------------------------------- overlay playback
\* SoundSDL2::playWav(fileName, position, length); sdl carries SDL's answers
\* to SDL_LoadWAV and SDL_OpenAudioDevice.  The value returned is left in
\* wavCall.ret.
playWav(s, fileName, position, length, sdl) ==
  LET reload == fileName # s.myWavFilename \/ s.myWavBuffer = 0
      s1 == IF reload /\ s.myWavBuffer # 0 THEN SDL_FreeWAV(s) ELSE s
      s2 == IF reload THEN SDL_LoadWAV(s1, fileName, sdl.load)
            ELSE s1
      s3 == [s2 EXCEPT
               !.myWavFilename = fileName,
               !.myWavLen = IF length # 0
                              THEN Min(length, s2.myWavLength - position)
                              ELSE s2.myWavLength,
               !.myWavPos = WavPos(s2.myWavBuffer, position)]
      s4 == IF s3.myWavDevice # 0 THEN s3
            ELSE IF sdl.open
              THEN [s3 EXCEPT !.myWavDevice = WavDeviceId,
                              !.wavStatus = "playing"]
              ELSE s3
      ret == /\ ~(reload /\ ~sdl.load)
             /\ position <= s2.myWavLength
             /\ s4.myWavDevice # 0
      out == IF reload /\ ~sdl.load THEN s2
             ELSE IF position > s2.myWavLength THEN s2
             ELSE s4
  IN [out EXCEPT !.wavCall = [fileName |-> fileName, position |-> position,
                              length |-> length,
                              loadFailed |-> (reload /\ ~sdl.load),
                              ret |-> ret],
                 !.wavPlayed =
                    IF ret THEN [on |-> TRUE, position |-> position,
                                 length |-> length, total |-> s2.myWavLength,
                                 bytes |-> << >>]
                    ELSE NoWavPlayed]

\* SoundSDL2::stopWav()
stopWav(s) ==
  IF s.myWavBuffer # 0
    THEN [s EXCEPT !.myWavLen = 0,
                   !.wavStatus = "stopped",
                   !.myWavDevice = 0,
                   !.myWavBuffer = 0,
                   !.wavPlayed = NoWavPlayed]
    ELSE [s EXCEPT !.wavPlayed = NoWavPlayed]

\* The offsets of n bytes from off on.
Offsets(off, n) == [i \in 1..n |-> off + i - 1]

\* A wavCallback that mixes len bytes whatever is left to play.
wavCallback_unclamped(s, len) ==
  IF s.myWavLen # 0
    THEN [s EXCEPT !.wavMixed = [pos |-> s.myWavPos, len |-> len,
                                 volume |-> s.myWavVolumeFactor],
                   !.wavPlayed.bytes =
                      IF s.wavPlayed.on
                        THEN @ \o Offsets(s.myWavPos.off, len) ELSE @,
                   !.myWavPos = WavPos(@.buf, @.off + len),
                   !.myWavLen = @ - len]
    ELSE [s EXCEPT !.wavMixed = NoWavMixed]

\* SoundSDL2::wavCallback(udata, stream, len): the stream is silenced, and
\* while something is left to play the next bytes are mixed in at
\* myWavVolumeFactor and the cursor moves on.  The branch taken at playback
\* speed 1 is modelled; the converting branch of RESAMPLE_WAV clamps and
\* advances in the same way.
wavCallback(s, len) ==
  LET n == IF len > s.myWavLen THEN s.myWavLen ELSE len
  IN IF s.myWavLen # 0
       THEN [s EXCEPT !.wavMixed = [pos |-> s.myWavPos, len |-> n,
                                    volume |-> s.myWavVolumeFactor],
                      !.wavPlayed.bytes =
                         IF s.wavPlayed.on
                           THEN @ \o Offsets(s.myWavPos.off, n) ELSE @,
                      !.myWavPos = WavPos(@.buf, @.off + n),
                      !.myWavLen = @ - n]
       ELSE [s EXCEPT !.wavMixed = NoWavMixed]

\* ------------------------------------------------------------ the machine
VARIABLES
  myAudioSettings, myIsInitializedFlag, myDevice, myDeviceId, myHardwareSpec, myVolume,
  myVolumeFactor, myWavVolumeFactor, myMuteState, myAudioQueue, myUnderrun, myCurrentFragment,
  myResampler, myEmulationTiming, audioQueue, sdlStatus, devLock, stream,
  filled, pullLog, error, crashed, sdlAudio,
  \* the overlay (WAV) playback
  myWavDevice, myWavBuffer, myWavLength, myWavLen, myWavPos, myWavFilename,
  wavStatus, wavHeap, wavCall, wavMixed, wavPlayed,
  \* the last operation and its argument; the callback's position and the
  \* byte length of its cycle; what is left of the main thread's method
  lastOp, lastArg, cbpc, cbLen, mainPc,
  \* the joystick map, what saveMapping produced from it and for which mode,
  \* the map that was cleared and loaded from it, and what loadMapping returned
  myMap, joySaved, joyMode, joyLoaded, joyRet,
  \* the snapshot browser: the image list, the current index, and what the
  \* last event read from the list
  myImageList, myImageIdx, imageRead

\* The components beside the sound engine.
others == << myMap, joySaved, joyMode, joyLoaded, joyRet,
            myImageList, myImageIdx, imageRead >>

sound == << myAudioSettings, myIsInitializedFlag, myDevice, myDeviceId, myHardwareSpec,
         myVolume, myVolumeFactor, myWavVolumeFactor, myMuteState, myAudioQueue,
         myUnderrun, myCurrentFragment, myResampler, myEmulationTiming, audioQueue,
         sdlStatus, devLock, stream, filled, pullLog,
         error, crashed, sdlAudio,
         myWavDevice, myWavBuffer, myWavLength, myWavLen, myWavPos,
         myWavFilename, wavStatus, wavHeap, wavCall, wavMixed, wavPlayed >>
obj == << sound, others >>
vars == << obj, lastOp, lastArg, cbpc, cbLen, mainPc >>

\* The state as a record, and a record made the next state.
St ==
  [ myAudioSettings |-> myAudioSettings,
    myIsInitializedFlag |-> myIsInitializedFlag,
    myDevice |-> myDevice,
    myDeviceId |-> myDeviceId,
    myHardwareSpec |-> myHardwareSpec,
    myVolume |-> myVolume,
    myVolumeFactor |-> myVolumeFactor,
    myWavVolumeFactor |-> myWavVolumeFactor,
    myMuteState |-> myMuteState,
    myAudioQueue |-> myAudioQueue,
    myUnderrun |-> myUnderrun,
    myCurrentFragment |-> myCurrentFragment,
    myResampler |-> myResampler,
    myEmulationTiming |-> myEmulationTiming,
    audioQueue |-> audioQueue,
    sdlStatus |-> sdlStatus,
    devLock |-> devLock,
    stream |-> stream,
    filled |-> filled,
    pullLog |-> pullLog,
    error |-> error,
    crashed |-> crashed,
    sdlAudio |-> sdlAudio,
    myWavDevice |-> myWavDevice,
    myWavBuffer |-> myWavBuffer,
    myWavLength |-> myWavLength,
    myWavLen |-> myWavLen,
    myWavPos |-> myWavPos,
    myWavFilename |-> myWavFilename,
    wavStatus |-> wavStatus,
    wavHeap |-> wavHeap,
    wavCall |-> wavCall,
    wavMixed |-> wavMixed,
    wavPlayed |-> wavPlayed,
    ret |-> NoFragment,
    ub |-> "trap" ]

Commit(s) ==
  /\ myAudioSettings' = s.myAudioSettings
  /\ myIsInitializedFlag' = s.myIsInitializedFlag
  /\ myDevice' = s.myDevice
  /\ myDeviceId' = s.myDeviceId
  /\ myHardwareSpec' = s.myHardwareSpec
  /\ myVolume' = s.myVolume
  /\ myVolumeFactor' = s.myVolumeFactor
  /\ myWavVolumeFactor' = s.myWavVolumeFactor
  /\ myMuteState' = s.myMuteState
  /\ myAudioQueue' = s.myAudioQueue
  /\ myUnderrun' = s.myUnderrun
  /\ myCurrentFragment' = s.myCurrentFragment
  /\ myResampler' = s.myResampler
  /\ myEmulationTiming' = s.myEmulationTiming
  /\ audioQueue' = s.audioQueue
  /\ sdlStatus' = s.sdlStatus
  /\ devLock' = s.devLock
  /\ stream' = s.stream
  /\ filled' = s.filled
  /\ pullLog' = s.pullLog
  /\ error' = s.error
  /\ crashed' = s.crashed
  /\ sdlAudio' = s.sdlAudio
  /\ myWavDevice' = s.myWavDevice
  /\ myWavBuffer' = s.myWavBuffer
  /\ myWavLength' = s.myWavLength
  /\ myWavLen' = s.myWavLen
  /\ myWavPos' = s.myWavPos
  /\ myWavFilename' = s.myWavFilename
  /\ wavStatus' = s.wavStatus
  /\ wavHeap' = s.wavHeap
  /\ wavCall' = s.wavCall
  /\ wavMixed' = s.wavMixed
  /\ wavPlayed' = s.wavPlayed
  /\ UNCHANGED others

\* An operation of the main thread leaves no callback buffers behind.
NoBuffers(s) ==
  [s EXCEPT !.stream = << >>, !.filled = << >>, !.pullLog = << >>,
            !.wavCall = NoWavCall, !.wavMixed = NoWavMixed]

\* AudioSettings as the user may have set them.
Settings(enabled, volumes, qualities) ==
  [ enabled : enabled,
    volume : volumes,
    sampleRate : {1},
    fragmentSize : {1},
    device : {0},
    resamplingQuality : qualities ]

\* SDL's answers to SDL_OpenAudioDevice: success or failure, and the rate
\* the hardware negotiated.
SdlAnswers(oks, freqs) ==
  {[NoArg EXCEPT !.b = ok, !.freq = f] : ok \in oks, f \in freqs}
\* The arguments of open(): an EmulationTiming, and SDL's answer.
Prebuffers == 1..QueueCapacity
OpenArgs(answers, prebuffers, rates) ==
  {[a EXCEPT !.pre = n, !.rate = r] :
     a \in answers, n \in prebuffers, r \in rates}

\* A JoyMap holds no mapping when it is constructed.
EmptyMap == [k \in {} |-> 0]

\* No subscript of the image list has been evaluated.
NoRead == [at |-> -1, size |-> 0, trap |-> FALSE]

\* The joystick map and the snapshot browser after construction.
OthersStart ==
  /\ myMap = EmptyMap
  /\ joySaved = << >>
  /\ joyMode = "none"
  /\ joyLoaded = EmptyMap
  /\ joyRet = 0
  /\ myImageList = << >>
  /\ myImageIdx = 0
  /\ imageRead = NoRead

\* The variables hold the engine state s, both threads at rest.
Start(s) ==
  /\ myAudioSettings = s.myAudioSettings
  /\ myIsInitializedFlag = s.myIsInitializedFlag
  /\ myDevice = s.myDevice
  /\ myDeviceId = s.myDeviceId
  /\ myHardwareSpec = s.myHardwareSpec
  /\ myVolume = s.myVolume
  /\ myVolumeFactor = s.myVolumeFactor
  /\ myWavVolumeFactor = s.myWavVolumeFactor
  /\ myMuteState = s.myMuteState
  /\ myAudioQueue = s.myAudioQueue
  /\ myUnderrun = s.myUnderrun
  /\ myCurrentFragment = s.myCurrentFragment
  /\ myResampler = s.myResampler
  /\ myEmulationTiming = s.myEmulationTiming
  /\ audioQueue = s.audioQueue
  /\ sdlStatus = s.sdlStatus
  /\ devLock = s.devLock
  /\ stream = s.stream
  /\ filled = s.filled
  /\ pullLog = s.pullLog
  /\ error = s.error
  /\ crashed = s.crashed
  /\ sdlAudio = s.sdlAudio
  /\ myWavDevice = s.myWavDevice
  /\ myWavBuffer = s.myWavBuffer
  /\ myWavLength = s.myWavLength
  /\ myWavLen = s.myWavLen
  /\ myWavPos = s.myWavPos
  /\ myWavFilename = s.myWavFilename
  /\ wavStatus = s.wavStatus
  /\ wavHeap = s.wavHeap
  /\ wavCall = s.wavCall
  /\ wavMixed = s.wavMixed
  /\ wavPlayed = s.wavPlayed
  /\ cbpc = "idle"
  /\ cbLen = 0
  /\ mainPc = << >>
  /\ OthersStart

\* The state after construction.
Construct(settings, sdlOk, a) ==
  /\ Start(SoundSDL2(settings, sdlOk, a))
  /\ lastOp = "SoundSDL2"
  /\ lastArg = 0

\* The program is running: it has not crashed, and no exception has left a
\* method (nothing in the engine catches the runtime_error of initResampler).
Alive == ~crashed /\ error = "none"

\* A method of the main thread run as a whole.
Call(op, arg, s) ==
  /\ Commit(NoBuffers(s))
  /\ lastOp' = op
  /\ lastArg' = arg
  /\ UNCHANGED << cbpc, cbLen, mainPc >>

Open(args) ==
  /\ Alive
  /\ \E a \in args : Call("open", 0, open(St, a))
Close ==
  /\ Alive
  /\ Call("close", 0, close(St))
Mute ==
  /\ Alive
  /\ \E b \in BOOLEAN : Call("mute", 0, mute(St, b))
SetEnabled ==
  /\ Alive
  /\ \E b \in BOOLEAN : Call("setEnabled", 0, setEnabled(St, b))
\* AudioSettings::setResamplingQuality, by the user interface.
SetQuality(qualities) ==
  /\ Alive
  /\ \E q \in qualities \ {myAudioSettings.resamplingQuality} :
       Call("setQuality", 0, [St EXCEPT !.myAudioSettings.resamplingQuality = q])
SetVolume ==
  /\ Alive
  /\ \E p \in Percents \cup BadPercents :
       Call("setVolume", p, setVolume(St, p))

\* toggleMute(); the step notes the value returned.
ToggleMute(args) ==
  /\ Alive
  /\ \E reinit \in BOOLEAN, a \in args :
       Call("toggleMute", IF toggleMute_enabled(St) THEN 1 ELSE 0,
            toggleMute(St, reinit, a))
\* Two toggleMute() calls with nothing in between; the step notes the value
\* the second one returned.
ToggleMuteTwice(args) ==
  /\ Alive
  /\ \E reinit1 \in BOOLEAN, reinit2 \in BOOLEAN, a1 \in args, a2 \in args :
       LET s == toggleMute(St, reinit1, a1)
       IN /\ s.error = "none"
          /\ Call("toggleMuteTwice", IF toggleMute_enabled(s) THEN 1 ELSE 0,
                  toggleMute(s, reinit2, a2))
\* adjustVolume(direction): one step up or down, none, or many at once.
Directions == {-1, 0, 1, -MaxPercent, MaxPercent}
AdjustVolume(args) ==
  /\ Alive
  /\ \E direction \in Directions, reinit \in BOOLEAN, a \in args :
       Call("adjustVolume", direction,
            adjustVolume(St, direction, reinit, a))

\* SDL's answers to playWav: SDL_LoadWAV loads the file or not,
\* SDL_OpenAudioDevice opens the overlay device or not.
WavAnswers == {[load |-> l, open |-> o] : l \in BOOLEAN, o \in BOOLEAN}
\* Positions at the start, inside, at the end and beyond the end of a file;
\* lengths zero, short and beyond the end.
WavPositions == {0, 1, MaxWavLength, MaxWavLength + 1}
WavLengths == {0, 1, MaxWavLength + 1}
WavLens == {1, 2}

PlayWav ==
  /\ Alive
  /\ \E fileName \in WavFiles, position \in WavPositions,
        length \in WavLengths, sdl \in WavAnswers :
       /\ sdl.load \/ ~sdl.open
       /\ Commit(playWav(NoBuffers(St), fileName, position, length, sdl))
  /\ lastOp' = "playWav"
  /\ lastArg' = 0
  /\ UNCHANGED << cbpc, cbLen, mainPc >>
StopWav ==
  /\ Alive
  /\ Call("stopWav", 0, stopWav(St))

\* The audio thread of the overlay device runs wavCallback on a stream of
\* len bytes.
WavCallback ==
  /\ Alive
  /\ wavStatus = "playing"
  /\ \E len \in WavLens :
       /\ Commit(wavCallback(NoBuffers(St), len))
       /\ lastOp' = "wavCallback"
       /\ lastArg' = len
  /\ UNCHANGED << cbpc, cbLen, mainPc >>

\* The emulation pushes a fragment.
Enqueue ==
  /\ Alive
  /\ AudioQueue_canEnqueue(audioQueue)
  /\ Commit(NoBuffers([St EXCEPT !.audioQueue = AudioQueue_enqueue(@)]))
  /\ lastOp' = "enqueue"
  /\ lastArg' = 0
  /\ UNCHANGED << cbpc, cbLen, mainPc >>

\* The audio thread runs the callback of the playing device on a buffer of
\* len bytes (whole stereo frames).
Callback(lens) ==
  /\ Alive
  /\ sdlStatus = "playing"
  /\ \E len \in lens :
    /\ \E ub \in {"trap", "wrap"} : Commit(callback(St, len, ub))
    /\ lastOp' = "callback"
    /\ lastArg' = len
    /\ UNCHANGED << cbpc, cbLen, mainPc >>

\* ------------------------------------------------ streaming on a good device
\* The device opens at the rate asked for; the emulation's rate, the
\* prebuffer count, the resampling quality and the volume vary.
StreamArgs == OpenArgs(SdlAnswers({TRUE}, {1}), Prebuffers, Rates)

Init ==
  \E settings \in Settings({TRUE}, Percents, Qualities) :
    Construct(settings, TRUE, [NoArg EXCEPT !.b = TRUE, !.freq = 1])

Next == Open(StreamArgs) \/ Close \/ Mute \/ Enqueue \/ Callback(FrameLens)

Spec == Init /\ [][Next]_vars

\* ------------------------------------------- the life cycle, failures included
\* SDL may fail to initialise or to open the device, audio may be disabled
\* and the volume set; one quality, one rate, one buffer length.
LifeArgs == OpenArgs(SdlAnswers(BOOLEAN, {1}), {1}, {1})
LifeLens == {2 * BytesPerSample}

InitLife ==
  \E settings \in Settings(BOOLEAN, {MaxPercent}, {"nearestNeightbour"}),
     sdlOk \in BOOLEAN, ok \in BOOLEAN, junk \in {0, 1} :
    /\ sdlOk \/ ~ok
    /\ ok \/ junk = 0
    /\ Construct(settings, sdlOk,
                 [NoArg EXCEPT !.b = ok, !.freq = 1, !.junk = junk])

NextLife ==
  \/ Open(LifeArgs) \/ Close \/ Mute \/ SetEnabled \/ SetVolume
  \/ Enqueue \/ Callback(LifeLens)

SpecLife == InitLife /\ [][NextLife]_vars

\* ----------------------------------------- streaming with a live producer
\* The audio thread keeps calling the callback of a playing device, and the
\* emulation keeps pushing fragments: weak fairness of Callback and of
\* Enqueue, written out as "infinitely often disabled or infinitely often
\* taken" with each action's enabling condition and the mark its steps leave.
CallbackEnabled == Alive /\ sdlStatus = "playing"
EnqueueEnabled == Alive /\ AudioQueue_canEnqueue(audioQueue)
CallbackFairness ==
  []<>(~CallbackEnabled) \/ []<><<lastOp' = "callback">>_vars
EnqueueFairness ==
  []<>(~EnqueueEnabled) \/ []<><<lastOp' = "enqueue">>_vars

SpecLive ==
  /\ Init /\ [][Next]_vars
  /\ CallbackFairness
  /\ EnqueueFairness

\* --------------------------------------- the methods statement by statement
\* The main thread runs its methods one statement at a time while the audio
\* thread runs callbacks; a statement that takes SDL's lock of the device
\* waits for the callback in progress, and no callback starts while the
\* main thread holds the lock or the device is paused.
ConcArgs == OpenArgs(SdlAnswers({TRUE}, {1}), {1}, {1})
ConcPrograms ==
  {<< "open", 0, openProg(a) >> : a \in ConcArgs}
  \cup {<< "close", 0, closeProg >>}
  \cup {<< "mute", 0, muteProg([NoArg EXCEPT !.b = b]) >> : b \in BOOLEAN}
  \cup {<< "setVolume", p, setVolumeProg([NoArg EXCEPT !.p = p]) >> :
          p \in {50, MaxPercent}}

InitConc ==
  \E settings \in Settings({TRUE}, {MaxPercent}, {"nearestNeightbour"}) :
    Construct(settings, TRUE, [NoArg EXCEPT !.b = TRUE, !.freq = 1])

\* The main thread calls a method.
MainCall ==
  /\ Alive
  /\ mainPc = << >>
  /\ \E c \in ConcPrograms :
       /\ lastOp' = c[1]
       /\ lastArg' = c[2]
       /\ mainPc' = c[3]
  /\ UNCHANGED << obj, cbpc, cbLen >>

\* The main thread runs the next statement of its method.
MainStep ==
  /\ Alive
  /\ mainPc # << >>
  /\ TakesDeviceLock(Head(mainPc), St) => (cbpc = "idle" /\ ~devLock)
  /\ Commit(Exec(Head(mainPc), St))
  /\ mainPc' = Rest(mainPc, St)
  /\ UNCHANGED << lastOp, lastArg, cbpc, cbLen >>

\* The audio thread takes the lock of the playing device and calls
\* SoundSDL2::callback on a buffer of len bytes.
CbEnter ==
  /\ Alive
  /\ cbpc = "idle" /\ sdlStatus = "playing" /\ ~devLock
  /\ \E len \in LifeLens :
       /\ Commit(callback_enter(St, len, "trap"))
       /\ cbLen' = len
  /\ cbpc' = "test"
  /\ UNCHANGED << lastOp, lastArg, mainPc >>

\* if(self->myAudioQueue) ... else SDL_memset(stream, 0, len)
CbTest ==
  /\ cbpc = "test"
  /\ IF myAudioQueue
       THEN /\ cbpc' = "fill"
            /\ UNCHANGED obj
       ELSE /\ cbpc' = "return"
            /\ Commit(SDL_memset(St, cbLen))
  /\ UNCHANGED << lastOp, lastArg, cbLen, mainPc >>

\* myResampler->fillFragment(stream, length)
CbFill ==
  /\ cbpc = "fill"
  /\ Commit(processFragment_fill(St, cbLen \div 4))
  /\ cbpc' = "scale"
  /\ UNCHANGED << lastOp, lastArg, cbLen, mainPc >>

\* stream[i] *= myVolumeFactor
CbScale ==
  /\ cbpc = "scale"
  /\ Alive
  /\ Commit(processFragment_scale(St, cbLen \div 4))
  /\ cbpc' = "return"
  /\ UNCHANGED << lastOp, lastArg, cbLen, mainPc >>

\* The callback returns; the audio thread takes the buffer and releases the
\* lock.
CbReturn ==
  /\ cbpc = "return"
  /\ Commit(NoBuffers(St))
  /\ cbpc' = "idle"
  /\ cbLen' = 0
  /\ UNCHANGED << lastOp, lastArg, mainPc >>

\* The emulation pushes a fragment.
EnqueueConc ==
  /\ Alive
  /\ AudioQueue_canEnqueue(audioQueue)
  /\ audioQueue' = AudioQueue_enqueue(audioQueue)
  /\ UNCHANGED << myAudioSettings, myIsInitializedFlag, myDevice, myDeviceId,
                  myHardwareSpec, myVolume, myVolumeFactor, myWavVolumeFactor,
                  myMuteState, myAudioQueue, myUnderrun, myCurrentFragment,
                  myResampler, myEmulationTiming, sdlStatus, devLock, stream,
                  filled, pullLog, error, crashed, sdlAudio,
                  myWavDevice, myWavBuffer, myWavLength, myWavLen, myWavPos,
                  myWavFilename, wavStatus, wavHeap, wavCall, wavMixed,
                  wavPlayed, others, lastOp, lastArg, cbpc, cbLen, mainPc >>

NextConc ==
  \/ MainCall \/ MainStep
  \/ CbEnter \/ CbTest \/ CbFill \/ CbScale \/ CbReturn
  \/ EnqueueConc

SpecConc == InitConc /\ [][NextConc]_vars

\* ------------------------------------------- a caller saving the mute state
\* The pattern prev = mute(true); ...; mute(prev): the call mute(prev) the
\* caller still has to make waits in mainPc with prev as its argument.  Open,
\* close and plain mute calls are made only while no restore is pending.
RestoreArgs == OpenArgs(SdlAnswers(BOOLEAN, {1}), {1}, {1})
Restoring == mainPc # << >>

InitRestore ==
  \E settings \in Settings({TRUE}, {MaxPercent}, {"nearestNeightbour"}),
     ok \in BOOLEAN :
    Construct(settings, TRUE, [NoArg EXCEPT !.b = ok, !.freq = 1])

\* prev = mute(true)
MuteSave ==
  /\ Alive
  /\ ~Restoring
  /\ Commit(NoBuffers(mute(St, TRUE)))
  /\ mainPc' = muteProg([NoArg EXCEPT !.b = mute_oldstate(St)])
  /\ lastOp' = "mute_save"
  /\ lastArg' = 0
  /\ UNCHANGED << cbpc, cbLen >>

\* mute(prev)
MuteRestore ==
  /\ Alive
  /\ Restoring
  /\ Commit(NoBuffers(Run(mainPc, St)))
  /\ mainPc' = << >>
  /\ lastOp' = "mute_restore"
  /\ lastArg' = IF Head(mainPc).a.b THEN 1 ELSE 0
  /\ UNCHANGED << cbpc, cbLen >>

\* Calls that change the mute state, made outside the pattern.
Unbracketed ==
  /\ ~Restoring
  /\ Open(RestoreArgs) \/ Close \/ Mute

NextRestore ==
  \/ Unbracketed
  \/ MuteSave \/ MuteRestore
  \/ SetEnabled \/ Enqueue \/ Callback(LifeLens)

SpecRestore == InitRestore /\ [][NextRestore]_vars

\* ------------------------------------------- what the hardware negotiates
\* SDL may answer with a rate other than the one asked for, and the settings
\* may name a device beyond the last one of myDevices, which openDevice
\* clamps.  The settings stay as they are throughout.
DeviceArgs == OpenArgs(SdlAnswers(BOOLEAN, Rates), {1}, {1})
DeviceChoices == {0, NumAudioDevices + 2}

InitDevice ==
  \E settings \in Settings({TRUE}, {MaxPercent}, {"nearestNeightbour"}),
     device \in DeviceChoices, freq \in Rates :
    Construct([settings EXCEPT !.device = device], TRUE,
              [NoArg EXCEPT !.b = TRUE, !.freq = freq])

NextDevice ==
  Open(DeviceArgs) \/ Close \/ Mute \/ Enqueue \/ Callback(LifeLens)

SpecDevice == InitDevice /\ [][NextDevice]_vars

\* ------------------------------------------- a change of resampling quality
\* The user changes the resampling quality between two open() calls, with or
\* without a close() in between; the settings may also hold a value that is
\* none of the three qualities.
Unsupported == "unsupported"
SwitchArgs == OpenArgs(SdlAnswers({TRUE}, {1}), {1}, {1})

InitSwitch ==
  \E settings \in Settings({TRUE}, {MaxPercent}, Qualities) :
    Construct(settings, TRUE, [NoArg EXCEPT !.b = TRUE, !.freq = 1])

NextSwitch ==
  \/ SetQuality(Qualities \cup {Unsupported})
  \/ Open(SwitchArgs) \/ Close \/ Mute \/ Enqueue \/ Callback(LifeLens)

SpecSwitch == InitSwitch /\ [][NextSwitch]_vars

\* --------------------------------------------------------- overlay playback
\* WAV files are played, stopped and played again over a working primary
\* device; SDL may fail to load a file or to open the overlay device.
InitWav ==
  \E settings \in Settings({TRUE}, {MaxPercent}, {"nearestNeightbour"}) :
    Construct(settings, TRUE, [NoArg EXCEPT !.b = TRUE, !.freq = 1])

NextWav == PlayWav \/ StopWav \/ WavCallback \/ Mute

SpecWav == InitWav /\ [][NextWav]_vars

\* ---------------------------------------------- the user's sound controls
\* Audio is switched on and off and the volume set and stepped, on an
\* engine that is opened and closed; SDL may fail to initialise or to open
\* the device.
InitControl == InitLife

NextControl ==
  \/ Open(LifeArgs) \/ Close \/ Mute \/ SetEnabled \/ SetVolume
  \/ ToggleMute(LifeArgs) \/ AdjustVolume(LifeArgs)

SpecControl == InitControl /\ [][NextControl]_vars

\* ------------------------------------------------- the mute toggle at work
\* The user toggles audio, once or twice in a row, on an engine that is
\* opened, closed, muted and streaming; SDL may fail to initialise or to
\* open the device.
InitToggle == InitLife

NextToggle ==
  \/ Open(LifeArgs) \/ Close \/ Mute \/ SetEnabled
  \/ ToggleMute(LifeArgs) \/ ToggleMuteTwice(LifeArgs)
  \/ Enqueue \/ Callback(LifeLens)

SpecToggle == InitToggle /\ [][NextToggle]_vars

\* ------------------------------------- playWav against the overlay callback
\* playWav takes no lock of the overlay device: once the device is open and
\* running, the audio thread may run wavCallback between any two statements
\* of a playWav on the main thread.  Positions inside the files and lengths
\* other than zero are played; a file loads or not, and the device opens.
RacePositions == {0, 1}
RaceLengths == {1, MaxWavLength + 1}
PlayWavCall ==
  /\ Alive
  /\ mainPc = << >>
  /\ \E fileName \in WavFiles, position \in RacePositions,
        length \in RaceLengths, sdl \in WavAnswers :
       /\ sdl.open
       /\ mainPc' = playWavProg(WavArg(fileName, position, length, sdl))
  /\ lastOp' = "playWav"
  /\ lastArg' = 0
  /\ UNCHANGED << obj, cbpc, cbLen >>

\* The audio thread of the overlay device runs one wavCallback cycle.
WavCycle ==
  /\ Alive
  /\ wavStatus = "playing"
  /\ \E len \in WavLens : Commit(wavCallback(St, len))
  /\ UNCHANGED << lastOp, lastArg, cbpc, cbLen, mainPc >>

NextWavRace == PlayWavCall \/ MainStep \/ WavCycle

SpecWavRace == InitWav /\ [][NextWavRace]_vars

\* ------------------------------------------- muting while the overlay plays
\* WAV files are played and stopped while the sound is muted, unmuted and
\* toggled; the primary device may be missing.
OverlayPositions == {0}
OverlayLengths == {0, 1}
PlayWavAt(positions, lengths) ==
  /\ Alive
  /\ \E fileName \in WavFiles, position \in positions,
        length \in lengths, sdl \in WavAnswers :
       /\ sdl.load \/ ~sdl.open
       /\ Commit(playWav(NoBuffers(St), fileName, position, length, sdl))
  /\ lastOp' = "playWav"
  /\ lastArg' = 0
  /\ UNCHANGED << cbpc, cbLen, mainPc >>

InitOverlayMute == InitLife

NextOverlayMute ==
  \/ PlayWavAt(OverlayPositions, OverlayLengths) \/ StopWav
  \/ Mute \/ ToggleMute(LifeArgs)

SpecOverlayMute == InitOverlayMute /\ [][NextOverlayMute]_vars

\* ------------------------------------------- resampling between equal formats
\* The nearest-neighbour Resampler on its own terms: the engine has opened
\* with a Queue, and the Resampler is the one initResampler builds when the
\* hardware has the Queue's rate, fragment size and channel layout (the
\* Queue is mono).  Cycles ask for one sample up to more than a fragment.
IdentityLens == {BytesPerSample * k : k \in 1..(FragmentSize + 1)}

IdentityFormat(rate) ==
  Format(rate, AudioQueue_fragmentSize, AudioQueue_isStereo)

InitIdentity ==
  \E settings \in Settings({TRUE}, {MaxPercent}, {"nearestNeightbour"}),
     a \in OpenArgs(SdlAnswers({TRUE}, {1}), Prebuffers, Rates) :
    LET s0 == SoundSDL2(settings, TRUE, [NoArg EXCEPT !.b = TRUE, !.freq = 1])
        s1 == [s0 EXCEPT !.myHardwareSpec =
                 [freq |-> a.rate, samples |-> AudioQueue_fragmentSize,
                  channels |-> 1]]
        s2 == [s1 EXCEPT !.myEmulationTiming =
                 [prebufferFragmentCount |-> a.pre,
                  audioSampleRate |-> a.rate],
               !.myAudioQueue = TRUE,
               !.myUnderrun = TRUE,
               !.myCurrentFragment = NoFragment]
    IN /\ Start(mute(initResampler(s2), FALSE))
       /\ lastOp = "open"
       /\ lastArg = 0

NextIdentity == Enqueue \/ Callback(IdentityLens)

SpecIdentity == InitIdentity /\ [][NextIdentity]_vars

\* ================================================================= claims
\* The callback cycle that has just ended, as the next state shows it.
AfterCallback == lastOp = "callback"
CycleLength == lastArg \div BytesPerSample
AllWritten == \A i \in DOMAIN stream : stream[i].w

\* C1: one callback cycle with a Queue bound returns exactly L = len / 4
\* samples and every one of them is written, whatever the strategy and
\* whatever the Queue yields.
C1_ExactLength ==
  (AfterCallback /\ myAudioQueue) =>
    /\ ~crashed
    /\ Len(stream) = CycleLength
    /\ AllWritten

\* C2: a callback that runs while no Queue is bound zero-fills the whole
\* buffer and invokes neither the Resampler nor any Queue operation.
C2_ZeroFill ==
  [][ (lastOp' = "callback" /\ ~myAudioQueue) =>
        /\ Len(stream') = lastArg' \div BytesPerSample
        /\ \A i \in DOMAIN stream' :
             stream'[i].w /\ stream'[i].v.n = 0
        /\ pullLog' = << >> /\ filled' = << >>
        /\ audioQueue' = audioQueue
        /\ myResampler' = myResampler
        /\ myCurrentFragment' = myCurrentFragment
        /\ myUnderrun' = myUnderrun
        /\ ~crashed' ]_vars
C2_Witness ==
  /\ AfterCallback /\ ~myAudioQueue
  /\ Len(stream) = 2 * MaxFrames
  /\ audioQueue.ready # << >>
  /\ myResampler.quality # "none"

\* C3: a pull made while the underrun flag is set dequeues only if the Queue
\* holds at least prebufferFragmentCount fragments, and otherwise returns
\* none and removes nothing; a pull made while the flag is clear attempts
\* a dequeue whatever the size of the Queue.
PullDequeued(e) ==
  /\ e.ready # << >>
  /\ e.ret = Head(e.ready)
  /\ e.readyAfter = Tail(e.ready)
PullUntouched(e) ==
  /\ e.ret = NoFragment
  /\ e.readyAfter = e.ready
PullAttempted(e) ==
  IF e.ready = << >> THEN PullUntouched(e) ELSE PullDequeued(e)
C3_Hysteresis ==
  \A i \in DOMAIN pullLog :
    LET e == pullLog[i]
        pre == myEmulationTiming.prebufferFragmentCount
    IN /\ (e.underrun /\ Len(e.ready) < pre) => PullUntouched(e)
       /\ (e.underrun /\ Len(e.ready) >= pre) => PullAttempted(e)
       /\ ~e.underrun => PullAttempted(e)
C3_Witness ==
  \E i \in DOMAIN pullLog :
    /\ pullLog[i].underrun
    /\ pullLog[i].ready # << >>
    /\ Len(pullLog[i].ready) < myEmulationTiming.prebufferFragmentCount
    /\ pullLog[i].ret = NoFragment

\* The fragments outside the Queue: neither ready nor free for recycling.
Range(seq) == {seq[i] : i \in DOMAIN seq}
CheckedOut == BufIds \ (audioQueue.free \cup Range(audioQueue.ready))

\* C5: at most one fragment is checked out in every reachable state, every
\* dequeue hands the previously checked-out fragment back to the Queue, a
\* pull that returns none keeps the checked-out reference, and the Queue
\* never hands out the fragment that is still checked out.
C5_OneInFlight ==
  /\ Cardinality(CheckedOut) <= 1
  /\ CheckedOut \subseteq {myCurrentFragment}
  /\ \A i \in DOMAIN pullLog :
       LET e == pullLog[i]
       IN /\ e.ret # NoFragment =>
               /\ e.ret # e.prev
               /\ e.cur = e.ret
               /\ e.prev # NoFragment => e.prev \in e.freeAfter
          /\ e.ret = NoFragment => e.cur = e.prev

\* C8: after close() returns no Queue is bound, no fragment is checked out
\* (the last one was handed back to the Queue) and the device handle is
\* released, in whatever state close() was called.
C8_TornDown ==
  lastOp = "close" =>
    /\ ~myAudioQueue
    /\ myCurrentFragment = NoFragment
    /\ CheckedOut = {}
    /\ sdlStatus = "stopped"

\* C9: setVolume(percent) with percent > 100 changes neither the stored
\* percent, the settings volume, the primary volume factor nor the overlay
\* volume factor; with percent in 0..100 on an initialized device it sets
\* the stored percent and the settings volume to percent.
C9_SetVolume ==
  [][ lastOp' = "setVolume" =>
        /\ lastArg' > MaxPercent =>
             /\ myVolume' = myVolume
             /\ myAudioSettings'.volume = myAudioSettings.volume
             /\ myVolumeFactor' = myVolumeFactor
             /\ myWavVolumeFactor' = myWavVolumeFactor
        /\ (lastArg' <= MaxPercent /\ myIsInitializedFlag) =>
             /\ myVolume' = lastArg'
             /\ myAudioSettings'.volume = lastArg' ]_vars
C9_Witness ==
  /\ lastOp = "setVolume" /\ lastArg > MaxPercent
  /\ myIsInitializedFlag
  /\ myVolume = 50 /\ myAudioSettings.volume = 50

\* C10: every sample a callback cycle returns is the Resampler's sample
\* times percent / 100, the factor being applied once, after the Resampler
\* filled the buffer; at volume 0 every sample is zero.
C10_VolumeOnce ==
  (AfterCallback /\ myAudioQueue) =>
    /\ Len(filled) = CycleLength
    /\ Len(stream) = CycleLength
    /\ \A i \in DOMAIN stream :
         /\ stream[i].w /\ filled[i].w
         /\ FloatEq(stream[i].v,
                    FloatMul(filled[i].v, Float(myVolume, MaxPercent)))
         /\ myVolume = 0 => stream[i].v.n = 0
C10_Witness ==
  /\ AfterCallback /\ myAudioQueue
  /\ myVolume = 50
  /\ \E i \in DOMAIN stream : filled[i].v.n # 0 /\ stream[i].v.n # 0

\* close() has paused the stream and is detaching the Queue.
Detaching ==
  /\ mainPc # << >>
  /\ Head(mainPc).l \in {"close_closeSink", "close_reset", "close_clear"}
CloseReturned == lastOp = "close" /\ mainPc = << >>

\* C6: close() pauses the stream before it detaches the Queue: under every
\* interleaving no callback is inside processFragment while close() detaches
\* the Queue or after it has detached it, and after close() has returned no
\* callback is running or can start.
C6_PauseThenDetach ==
  /\ cbpc \in {"fill", "scale"} => (myAudioQueue /\ ~Detaching)
  /\ Detaching => (cbpc = "idle" /\ sdlStatus # "playing")
  /\ CloseReturned =>
       (cbpc = "idle" /\ sdlStatus # "playing" /\ ~myAudioQueue)
C6_Witness ==
  /\ lastOp = "close"
  /\ mainPc # << >> /\ Head(mainPc).l = "close_mute"
  /\ cbpc = "fill"
  /\ audioQueue.ready # << >>

\* The state the primary callback reads.
CallbackRead ==
  << myVolumeFactor, myAudioQueue, myUnderrun, myCurrentFragment,
     myResampler, myHardwareSpec >>

Starving == myAudioQueue /\ sdlStatus = "playing" /\ myUnderrun
Recovered ==
  \/ ~myUnderrun
  \/ \E i \in DOMAIN pullLog :
       pullLog[i].underrun /\ ~pullLog[i].underrunAfter
  \/ ~myAudioQueue \/ sdlStatus # "playing"
  \/ ~AudioQueue_canEnqueue(audioQueue)

\* C4: a cycle that needs a fragment while the Queue is empty completes
\* with every sample written and sets the underrun flag; the flag stays set
\* across cycles while the Queue holds fewer than prebufferFragmentCount
\* fragments; while the producer keeps pushing, underrun is eventually left
\* by a pull that finds the Queue at or above the threshold, and that pull
\* hands over the head of the Queue, which is read from its first sample.
C4_UnderrunRecovery ==
  /\ [](AfterCallback /\ myAudioQueue =>
          /\ (\E i \in DOMAIN pullLog : pullLog[i].ready = << >>) =>
               (myUnderrun /\ AllWritten /\ Len(stream) = CycleLength
                  /\ ~crashed)
          /\ \A i \in DOMAIN pullLog :
               LET e == pullLog[i]
               IN (e.underrun /\ e.ret # NoFragment) =>
                    /\ i = 1
                    /\ Len(e.ready) >= myEmulationTiming.prebufferFragmentCount
                    /\ e.ret = Head(e.ready)
                    /\ ~e.underrunAfter
                    /\ filled[1] = Written(Float(FragmentSample(e.ret, 0), 1)))
  /\ [][ (lastOp' = "callback" /\ myAudioQueue /\ myUnderrun
            /\ Len(audioQueue.ready)
                 < myEmulationTiming.prebufferFragmentCount) =>
           (myUnderrun' /\ audioQueue' = audioQueue) ]_vars
  /\ (Starving ~> Recovered)
C4_Witness ==
  /\ AfterCallback /\ myAudioQueue /\ ~myUnderrun
  /\ pullLog # << >>
  /\ pullLog[1].underrun /\ pullLog[1].ret # NoFragment
  /\ myEmulationTiming.prebufferFragmentCount = QueueCapacity
  /\ myResampler.last # 0

\* C11: mute(state) returns whether the primary stream was paused just
\* before the call, and the value is not changed by what the caller does
\* until it passes it back, so that after prev = mute(true); ...; mute(prev)
\* with no open, close or mute in between the stream is paused exactly if it
\* was paused before mute(true).
C11_SaveRestore ==
  [][ /\ lastOp' = "mute_save" =>
           /\ Head(mainPc').a.b = (sdlStatus = "paused")
           /\ sdlStatus' = IF sdlStatus = "stopped" THEN "stopped"
                                                  ELSE "paused"
      /\ (Restoring /\ lastOp' # "mute_restore") =>
           (mainPc' = mainPc /\ sdlStatus' = sdlStatus)
      /\ lastOp' = "mute_restore" =>
           /\ (sdlStatus' = "paused") = Head(mainPc).a.b
           /\ (sdlStatus' = "stopped") = (sdlStatus = "stopped") ]_vars
C11_Witness ==
  /\ lastOp = "mute_restore" /\ lastArg = 0
  /\ sdlStatus = "playing"
  /\ myAudioQueue /\ audioQueue.ready # << >>

\* The main thread is inside neither open() nor close().
OutsideOpenClose == mainPc = << >> \/ lastOp \in {"mute", "setVolume"}
\* What the consumer side of a callback cycle works on.
ConsumerState == << myCurrentFragment, myUnderrun, myResampler >>

\* C12: around a pause (the step that pauses, every step while paused, the
\* step that resumes) no callback cycle is in progress or starts, the
\* checked-out fragment, the underrun flag and the Resampler with its
\* position stay as they are, and the Queue changes only by what the producer
\* pushes; a cycle that finds a fragment checked out starts its output at the
\* position the Resampler holds, and one that has to pull sees the Queue as
\* it stands.
C12_PausedFrozen ==
  [][ /\ ((sdlStatus = "paused" \/ sdlStatus' = "paused")
             /\ OutsideOpenClose /\ OutsideOpenClose') =>
           /\ cbpc = "idle" /\ cbpc' = "idle"
           /\ pullLog' = << >>
           /\ ConsumerState' = ConsumerState
           /\ audioQueue' # audioQueue =>
                audioQueue' = AudioQueue_enqueue(audioQueue)
      /\ (cbpc = "fill" /\ cbpc' = "scale") =>
           /\ myResampler.cur # NoFragment =>
                /\ stream'[1] = Written(Float(ResampledValue(St), 1))
                /\ myResampler.cur = myCurrentFragment
           /\ pullLog' # << >> =>
                /\ pullLog'[1].ready = audioQueue.ready
                /\ pullLog'[1].prev = myCurrentFragment ]_vars
C12_Witness ==
  /\ lastOp = "mute" /\ mainPc = << >>
  /\ sdlStatus = "paused"
  /\ myAudioQueue /\ audioQueue.ready # << >>
  /\ myCurrentFragment # NoFragment
  /\ myResampler.cur = myCurrentFragment
  /\ myResampler.fragmentIndex > 0

\* C13: after open() has returned on an open device, the primary stream is
\* running if audio is enabled and paused if it is disabled, whatever calls
\* came before.
C13_UnmuteByEnabled ==
  (lastOp = "open" /\ myIsInitializedFlag /\ ~crashed) =>
    sdlStatus = IF myAudioSettings.enabled THEN "playing" ELSE "paused"

\* C14: an open() on an open device whose settings are those it was opened
\* with leaves the device handle and the hardware format as they are, also
\* when the hardware negotiated another rate than the one asked for or the
\* device named by the settings was clamped.
C14_NoChurn ==
  [][ (lastOp' = "open" /\ myIsInitializedFlag) =>
        /\ myIsInitializedFlag'
        /\ myDevice' = myDevice
        /\ myHardwareSpec' = myHardwareSpec ]_vars

\* open() returns void: an exception is all its caller can get to know.
Notified == error # "none"
DeviceState == << myDevice, myIsInitializedFlag, sdlStatus >>

\* C15: an open() during which the device could not be opened tells its
\* caller and leaves the engine without a device (not initialized, the device
\* stopped, so that no callback fires); an open(), close(), setVolume() or
\* mute() called on the engine in that state returns without having changed
\* anything about a device.
C15_FailsToClosed ==
  [][ /\ (lastOp' = "open" /\ ~myIsInitializedFlag') =>
           (Notified' /\ sdlStatus' = "stopped" /\ ~crashed')
      /\ (~myIsInitializedFlag
            /\ lastOp' \in {"open", "close", "setVolume", "mute"}) =>
           (DeviceState' = DeviceState /\ ~crashed') ]_vars

\* The state of the engine between two calls.
EngineState ==
  IF ~myIsInitializedFlag \/ ~myAudioQueue THEN "Closed"
  ELSE IF sdlStatus = "playing" THEN "Streaming" ELSE "Muted"
\* Everything mute() could touch but the scheduling of the callback.
BesidesScheduling ==
  << myAudioSettings, myIsInitializedFlag, myDevice, myDeviceId,
     myHardwareSpec, myVolume, myVolumeFactor, myWavVolumeFactor, myMuteState,
     myAudioQueue, myUnderrun, myCurrentFragment, myResampler,
     myEmulationTiming, audioQueue >>

\* C16: the engine leaves Closed only through open() and comes back to it
\* only through close() or an open() that lost the device; the callback is
\* scheduled (the device is playing) only in Streaming, so never before the
\* first open(), after close() or without a live device; and a mute() moves
\* between Streaming and Muted changing nothing but the scheduling.
C16_StateMachine ==
  [][ /\ (EngineState = "Closed" /\ EngineState' # "Closed") =>
           lastOp' = "open"
      /\ (EngineState # "Closed" /\ EngineState' = "Closed") =>
           lastOp' \in {"close", "open"}
      /\ sdlStatus' = "playing" => EngineState' = "Streaming"
      /\ lastOp' = "mute" => BesidesScheduling' = BesidesScheduling ]_vars

\* C17: an open() that finds a Resampler of another quality than the
\* settings now ask for (a second open() on the same Queue, with or without
\* a close() before it) builds the new Resampler with no fragment taken yet,
\* leaves the Queue's fragments where they are and leaves no fragment
\* checked out; the first pull of a Resampler that holds no fragment returns
\* the Queue's head or none.
C17_SwitchAtHead ==
  [][ /\ (lastOp' = "open" /\ error' = "none" /\ myAudioQueue'
            /\ myResampler.quality
                 \notin {"none", myAudioSettings.resamplingQuality}) =>
           /\ myResampler'.quality = myAudioSettings.resamplingQuality
           /\ myResampler'.cur = NoFragment
           /\ myCurrentFragment' = NoFragment
           /\ audioQueue'.ready = audioQueue.ready
           /\ CheckedOut' = {}
      /\ (lastOp' = "callback" /\ myResampler.quality # "none"
            /\ myResampler.cur = NoFragment
            /\ pullLog' # << >> /\ pullLog'[1].ret # NoFragment) =>
           /\ audioQueue.ready # << >>
           /\ pullLog'[1].ret = Head(audioQueue.ready) ]_vars

\* C18: open() with a resampling quality other than nearest neighbour,
\* lanczos-2 and lanczos-3 ends in the error "invalid resampling quality":
\* no Resampler is built, the one there was is not replaced by another
\* strategy, and the stream is left paused; with one of the three qualities
\* open() raises nothing and builds the Resampler of that quality.
C18_UnsupportedQuality ==
  [][ (lastOp' = "open" /\ myAudioSettings.enabled) =>
        IF myAudioSettings.resamplingQuality \in Qualities
          THEN /\ error' = "none"
               /\ myResampler'.quality = myAudioSettings.resamplingQuality
          ELSE /\ error' = "invalid resampling quality"
               /\ myResampler' = myResampler
               /\ sdlStatus' # "playing" ]_vars
C18_Witness ==
  /\ lastOp = "open"
  /\ error = "invalid resampling quality"
  /\ myAudioSettings.resamplingQuality = Unsupported
  /\ myResampler.quality \in Qualities
  /\ myAudioQueue /\ audioQueue.ready # << >>

\* C19: whenever something is left to play a buffer is loaded and the
\* overlay cursor points into it; a cursor into the loaded buffer and the
\* remaining length never reach beyond the buffer's end; and the bytes a
\* callback cycle mixes lie inside the loaded buffer.
C19_OverlayBounds ==
  /\ myWavLen > 0 => (myWavBuffer # 0 /\ myWavPos.buf = myWavBuffer)
  /\ (myWavBuffer # 0 /\ myWavPos.buf = myWavBuffer) =>
       /\ myWavPos.off <= myWavLength
       /\ myWavPos.off + myWavLen <= myWavLength
  /\ wavMixed.len > 0 =>
       /\ myWavBuffer # 0 /\ wavMixed.pos.buf = myWavBuffer
       /\ wavMixed.pos.off + wavMixed.len <= myWavLength

\* C20: after a playWav(fileName, position, length) that returned true the
\* cursor is at position in the loaded buffer and the remaining length is
\* min(length, myWavLength - position) if length is not zero, and
\* myWavLength - position if it is.
C20_EffectiveLength ==
  (lastOp = "playWav" /\ wavCall.ret) =>
    /\ myWavPos = WavPos(myWavBuffer, wavCall.position)
    /\ myWavLen = IF wavCall.length # 0
                    THEN Min(wavCall.length, myWavLength - wavCall.position)
                    ELSE myWavLength - wavCall.position

\* The overlay as a caller of playWav and stopWav finds it: the loaded
\* buffer and its length, the file it is taken to hold, the cursor, the
\* remaining length and the overlay stream.
OverlayState ==
  << myWavBuffer, myWavLength, myWavFilename, myWavPos, myWavLen,
     myWavDevice, wavStatus >>
\* The playWav of this step had to load its file and SDL_LoadWAV failed.
LoadFailed == lastOp' = "playWav" /\ wavCall'.loadFailed

\* C21: a playWav whose position lies beyond the length of the file it
\* names (the file loading, or being loaded already) returns false and leaves
\* the loaded buffer, the file name, the cursor, the remaining length and the
\* overlay stream as they were, whether the file is the loaded one or not.
C21_BeyondEndUnchanged ==
  [][ (lastOp' = "playWav" /\ ~LoadFailed
         /\ wavCall'.position > WavFileLength(wavCall'.fileName)) =>
        /\ ~wavCall'.ret
        /\ OverlayState' = OverlayState ]_vars

\* C22: a playWav that cannot load its file returns false and changes
\* nothing: the buffer loaded before is still loaded, and the cursor and the
\* remaining length still describe bytes of the loaded buffer for the
\* overlay callback.
C22_LoadFailureUnchanged ==
  [][ LoadFailed =>
        /\ ~wavCall'.ret
        /\ OverlayState' = OverlayState
        /\ myWavLen' > 0 =>
             (myWavBuffer' # 0 /\ myWavPos'.buf = myWavBuffer') ]_vars

\* SoundSDL2::wavSize()
wavSize == IF myWavBuffer # 0 THEN myWavLen ELSE 0

\* The bytes a playback started by playWav(fileName, p, n) is to mix.
PlayRange ==
  Offsets(wavPlayed.position,
          Min(wavPlayed.length, wavPlayed.total - wavPlayed.position))
IsPrefix(a, b) == Len(a) <= Len(b) /\ a = SubSeq(b, 1, Len(a))

\* C23: after a playWav(fileName, p, n) with n > 0 that returned true, the
\* wavCallback cycles of that playback mix the bytes p up to (not including)
\* p + min(n, total - p) of the loaded buffer in order, each once: what has been mixed is a prefix
\* of that range, what remains is the rest of it, every cycle with something
\* left mixes at least one byte more, and once nothing remains the whole
\* range has been mixed, no later cycle mixes anything and wavSize() is 0.
C23_RangePlayback ==
  /\ []((wavPlayed.on /\ wavPlayed.length > 0 /\ mainPc = << >>) =>
          /\ IsPrefix(wavPlayed.bytes, PlayRange)
          /\ myWavLen = Len(PlayRange) - Len(wavPlayed.bytes)
          /\ myWavLen = 0 => (wavPlayed.bytes = PlayRange /\ wavSize = 0))
  /\ [][ (lastOp' = "wavCallback" /\ wavPlayed.on /\ wavPlayed.length > 0) =>
           IF myWavLen > 0
             THEN /\ Len(wavPlayed'.bytes) > Len(wavPlayed.bytes)
                  /\ wavMixed'.pos = myWavPos
                  /\ wavMixed'.len = Len(wavPlayed'.bytes) - Len(wavPlayed.bytes)
             ELSE wavMixed'.len = 0 /\ wavPlayed' = wavPlayed ]_vars

\* C24: after stopWav() has returned no buffer is loaded, no overlay device
\* is open (nor running) and wavSize() is 0, in whatever state it was called,
\* also after a playWav that failed after one that succeeded; and a
\* stopWav() that follows a stopWav() changes nothing.
C24_StopReleases ==
  /\ [](lastOp = "stopWav" =>
          /\ myWavBuffer = 0
          /\ myWavDevice = 0 /\ wavStatus = "stopped"
          /\ wavSize = 0)
  /\ [][ (lastOp = "stopWav" /\ lastOp' = "stopWav") =>
           OverlayState' = OverlayState ]_vars

\* C25: in every state after construction and any calls of setEnabled,
\* setVolume, toggleMute, adjustVolume, open and close, the overlay volume
\* factor is 0 while audio is disabled and equal to the primary volume factor
\* while audio is enabled.
C25_OverlayVolumeTracks ==
  IF myAudioSettings.enabled
    THEN FloatEq(myWavVolumeFactor, myVolumeFactor)
    ELSE myWavVolumeFactor.n = 0

\* The engine has its device before and after the step.
KeepsDevice == myIsInitializedFlag /\ myIsInitializedFlag'
\* The stream is paused exactly when audio is disabled.
PausedByEnabled == (sdlStatus = "paused") = ~myAudioSettings.enabled

\* C26 as stated: toggleMute() flips the enabled setting and returns the
\* new value, leaves the stream of an engine that has its device paused
\* exactly when the new value is false, and two consecutive calls restore
\* the enabled setting and the paused or running state of the stream.
C26_ToggleRestores ==
  [][ /\ lastOp' = "toggleMute" =>
           /\ myAudioSettings'.enabled = ~myAudioSettings.enabled
           /\ (lastArg' = 1) = myAudioSettings'.enabled
           /\ myIsInitializedFlag' => PausedByEnabled'
      /\ lastOp' = "toggleMuteTwice" =>
           /\ myAudioSettings'.enabled = myAudioSettings.enabled
           /\ KeepsDevice => sdlStatus' = sdlStatus ]_vars

\* C26, amended: toggleMute() flips the enabled setting and returns the new
\* value, and leaves the stream of an engine that has its device paused
\* exactly when the new value is false; two consecutive calls restore the
\* enabled setting and leave the stream paused exactly when audio is
\* disabled, which is the state it was in before only if it was then paused
\* exactly when audio was disabled.
C26_ToggleFollowsEnabled ==
  [][ /\ lastOp' = "toggleMute" =>
           /\ myAudioSettings'.enabled = ~myAudioSettings.enabled
           /\ (lastArg' = 1) = myAudioSettings'.enabled
           /\ myIsInitializedFlag' => PausedByEnabled'
      /\ lastOp' = "toggleMuteTwice" =>
           /\ myAudioSettings'.enabled = myAudioSettings.enabled
           /\ (lastArg' = 1) = myAudioSettings.enabled
           /\ myIsInitializedFlag' => PausedByEnabled'
           /\ KeepsDevice => (sdlStatus' = sdlStatus) = PausedByEnabled ]_vars
C26_Witness ==
  /\ lastOp = "toggleMuteTwice" /\ lastArg = 0
  /\ myIsInitializedFlag /\ myAudioQueue
  /\ ~myAudioSettings.enabled /\ sdlStatus = "paused"
  /\ audioQueue.ready # << >>

\* The producer's Queue tolerates overflows exactly when audio is disabled.
ToleranceByEnabled == audioQueue.ignoreOverflows = ~myAudioSettings.enabled

\* C27: after open(queue) the Queue the producer pushes to tolerates
\* overflows exactly when audio is disabled, and so it does after a
\* setEnabled(e) that follows the open(); an open() with audio disabled turns
\* tolerance on, leaves the primary stream paused and makes no binding.
C27_ToleranceFollowsEnabled ==
  [][ /\ lastOp' = "open" => ToleranceByEnabled'
      /\ (lastOp' = "open" /\ ~myAudioSettings.enabled) =>
           /\ audioQueue'.ignoreOverflows
           /\ sdlStatus' # "playing"
           /\ myAudioQueue' = myAudioQueue
      /\ (lastOp = "open" /\ lastOp' = "setEnabled") =>
           ToleranceByEnabled' ]_vars

C29_HoldLast ==
  [][ (lastOp' = "callback" /\ myAudioQueue) =>
        \A i \in DOMAIN pullLog' :
          pullLog'[i].ret = NoFragment =>
            LET at == pullLog'[i].at
                hold == IF at > 0 THEN filled'[at].v
                        ELSE Float(myResampler.last, 1)
            IN /\ Len(filled') = lastArg' \div BytesPerSample
               /\ \A j \in (at + 1)..Len(filled') : filled'[j] = Written(hold)
               /\ myUnderrun'
               /\ ~crashed' /\ error' = error
               /\ sdlStatus' = sdlStatus ]_vars

\* A cycle of two frames ran dry after its first frame: the second frame
\* repeats the first, which is not silence.
C29_Witness ==
  /\ lastOp = "callback" /\ myAudioQueue /\ myUnderrun
  /\ Len(filled) = 2 * MaxFrames
  /\ \E i \in DOMAIN pullLog :
       pullLog[i].ret = NoFragment /\ pullLog[i].at = 2
  /\ filled[4] = filled[2]
  /\ filled[4].v.n # 0

\* The samples of fragment b from index from on; the samples of a sequence
\* of fragments, one after the other.
FragSamples(b, from) ==
  [k \in 1..(FragmentSize - from) |-> FragmentSample(b, from + k - 1)]
RECURSIVE Concatenation(_)
Concatenation(fragments) ==
  IF fragments = << >> THEN << >>
  ELSE FragSamples(Head(fragments), 0) \o Concatenation(Tail(fragments))

\* The fragments a cycle dequeued, in the order of its pulls.
Dequeued(log) == [i \in DOMAIN log |-> log[i].ret]
\* What the Resampler has yet to read of the fragment it has checked out.
Unread(r) ==
  IF r.cur = NoFragment THEN << >> ELSE FragSamples(r.cur, r.fragmentIndex)

\* C30: with formatFrom = formatTo, a nearest-neighbour cycle in which no
\* pull returns none writes, sample for sample, what was left unread of the
\* checked-out fragment followed by the fragments it dequeues, those being
\* the head of the Queue in order; what it did not write of them is what is
\* left unread afterwards.  Cycle after cycle the output is thus the
\* concatenation of the dequeued fragments, nothing repeated or skipped.
C30_IdentityResampling ==
  [][ ( /\ lastOp' = "callback" /\ myAudioQueue
        /\ myResampler.formatFrom = myResampler.formatTo
        /\ myResampler.a = 0
        /\ \A i \in DOMAIN pullLog' : pullLog'[i].ret # NoFragment
        /\ (myResampler.cur # NoFragment \/ pullLog' # << >>) ) =>
        LET L == lastArg' \div BytesPerSample
            source == Unread(myResampler)
                        \o Concatenation(Dequeued(pullLog'))
        IN /\ Len(filled') = L /\ L <= Len(source)
           /\ \A j \in 1..L : filled'[j] = Written(Float(source[j], 1))
           /\ Dequeued(pullLog')
                = SubSeq(audioQueue.ready, 1, Len(pullLog'))
           /\ Unread(myResampler')
                = SubSeq(source, L + 1, Len(source)) ]_vars

\* A cycle of FragmentSize + 1 samples that started in the middle of a
\* fragment has written its rest and the whole of the next fragment, and
\* has checked out a third.
C30_Witness ==
  /\ lastOp = "callback" /\ myAudioQueue /\ ~myUnderrun
  /\ myResampler.formatFrom = myResampler.formatTo
  /\ Len(filled) = FragmentSize + 1
  /\ Len(pullLog) = 2
  /\ filled[1].v.n = FragmentSample(pullLog[1].prev, FragmentSize - 1)
  /\ filled[2].v.n = FragmentSample(pullLog[1].ret, 0)
  /\ filled[3].v.n = FragmentSample(pullLog[1].ret, FragmentSize - 1)
  /\ myResampler.cur = pullLog[2].ret
  /\ myResampler.fragmentIndex = 0

\* C31: after a callback cycle with a Queue bound, the underrun flag is set
\* exactly when the last pull of the cycle returned none; a cycle without a
\* pull leaves the flag and the checked-out fragment as they were; and each
\* pull leaves the checked-out fragment alone unless it returned a fragment,
\* which then is the one checked out.
C31_UnderrunFlag ==
  [][ (lastOp' = "callback" /\ myAudioQueue /\ ~crashed') =>
        /\ pullLog' # << >> =>
             myUnderrun' = (pullLog'[Len(pullLog')].ret = NoFragment)
        /\ pullLog' = << >> =>
             /\ myUnderrun' = myUnderrun
             /\ myCurrentFragment' = myCurrentFragment
        /\ \A i \in DOMAIN pullLog' :
             LET e == pullLog'[i]
             IN /\ e.cur = (IF e.ret # NoFragment THEN e.ret ELSE e.prev)
                /\ e.prev = (IF i = 1 THEN myCurrentFragment
                             ELSE pullLog'[i - 1].cur)
                /\ i = Len(pullLog') => myCurrentFragment' = e.cur ]_vars

\* A cycle pulled twice: the first pull handed over a fragment, the second
\* found the Queue empty; the flag is set and the fragment stays checked out.
C31_Witness ==
  /\ lastOp = "callback" /\ myAudioQueue /\ ~crashed
  /\ Len(pullLog) = 2
  /\ pullLog[1].ret # NoFragment
  /\ pullLog[2].ret = NoFragment
  /\ myUnderrun
  /\ myCurrentFragment = pullLog[1].ret

\* C32: a wavCallback cycle of len bytes with nothing left to play mixes
\* nothing into the silence and leaves cursor and remaining length alone;
\* otherwise it mixes min(len, remaining) bytes from the cursor, moves the
\* cursor forward and the remaining length down by that count, so that their
\* sum is kept and the remaining length does not go below zero.
C32_OverlayCycle ==
  [][ lastOp' = "wavCallback" =>
        IF myWavLen = 0
          THEN /\ wavMixed' = NoWavMixed
               /\ myWavPos' = myWavPos
               /\ myWavLen' = myWavLen
          ELSE LET n == Min(lastArg', myWavLen)
               IN /\ wavMixed'.pos = myWavPos /\ wavMixed'.len = n
                  /\ myWavPos' = WavPos(myWavPos.buf, myWavPos.off + n)
                  /\ myWavLen' = myWavLen - n
                  /\ myWavLen' >= 0
                  /\ myWavPos'.off + myWavLen' = myWavPos.off + myWavLen
                  /\ myWavBuffer' = myWavBuffer ]_vars

\* A cycle of two bytes found one byte left: it mixed that byte and nothing
\* is left.
C32_Witness ==
  /\ lastOp = "wavCallback" /\ lastArg = 2
  /\ wavMixed.len = 1
  /\ myWavLen = 0
  /\ myWavPos.off = wavMixed.pos.off + 1

\* A wavCallback cycle that finds something left to play and reads it, as
\* the steps of the interleaving show it: the main thread stays where it is
\* and the remaining length goes down.
CycleReads == mainPc' = mainPc /\ myWavLen # 0 /\ myWavLen' # myWavLen

\* C33: whatever statement of a playWav the main thread is at, a wavCallback
\* cycle that reads does so at a cursor into the buffer that is loaded, not a
\* freed one, and never between the statement that sets the remaining length
\* of the new playback and the one that sets its cursor.
C33_RaceFree ==
  [][ CycleReads =>
        /\ myWavBuffer # 0 /\ myWavPos.buf = myWavBuffer
        /\ ~(mainPc # << >> /\ Head(mainPc).l = "playWav_pos") ]_vars

\* C34: a playWav leaves an overlay device that is open as the one it is,
\* opening one only when there is none, and after a playWav that returned
\* true the overlay device is open and running.
C34_LazyOpen ==
  [][ lastOp' = "playWav" =>
        /\ myWavDevice # 0 => myWavDevice' = myWavDevice
        /\ wavCall'.ret => (myWavDevice' # 0 /\ wavStatus' = "playing") ]_vars

\* The engine as open() leaves it when it binds a Queue, and as it stays
\* until a pull dequeues: in underrun, nothing checked out.
AwaitingPrebuffer ==
  myAudioQueue /\ myUnderrun /\ myCurrentFragment = NoFragment

\* C35: an open() that binds a Queue with audio enabled leaves the engine in
\* underrun with no fragment checked out, by the engine or by the new
\* Resampler; from there the first pull of a cycle dequeues only if the Queue
\* holds at least prebufferFragmentCount fragments, and then the head of the
\* Queue; with fewer, every pull of the cycle returns none, and the Queue,
\* the flag and the empty reference are left as they were.
C35_StartsInUnderrun ==
  [][ /\ (lastOp' = "open" /\ myAudioSettings'.enabled /\ myAudioQueue'
            /\ error' = "none") =>
           (AwaitingPrebuffer' /\ myResampler'.cur = NoFragment)
      /\ (lastOp' = "callback" /\ AwaitingPrebuffer /\ ~crashed') =>
           /\ pullLog' # << >>
           /\ pullLog'[1].underrun /\ pullLog'[1].ready = audioQueue.ready
           /\ pullLog'[1].ret # NoFragment =>
                /\ Len(audioQueue.ready)
                     >= myEmulationTiming.prebufferFragmentCount
                /\ pullLog'[1].ret = Head(audioQueue.ready)
           /\ Len(audioQueue.ready)
                < myEmulationTiming.prebufferFragmentCount =>
                /\ \A i \in DOMAIN pullLog' : pullLog'[i].ret = NoFragment
                /\ audioQueue' = audioQueue
                /\ AwaitingPrebuffer' ]_vars

\* With a prebuffer count of two and one fragment queued, the first cycle
\* after open() pulled, got none and left the fragment in the Queue.
C35_Witness ==
  /\ lastOp = "callback" /\ AwaitingPrebuffer
  /\ myEmulationTiming.prebufferFragmentCount = 2
  /\ Len(audioQueue.ready) = 1
  /\ Len(pullLog) = 1
  /\ pullLog[1].ret = NoFragment /\ pullLog[1].ready = audioQueue.ready

\* C36: a toggleMute() that returns with an overlay device open leaves that
\* device open and running, whether the sound is now muted or not; mute(true)
\* pauses the overlay device if there is one, and the primary device if
\* there is one.
C36_ToggleKeepsOverlay ==
  /\ [][ (lastOp' = "toggleMute" /\ error' = "none" /\ myWavDevice' # 0) =>
           wavStatus' = "playing" ]_vars
  /\ [][ (lastOp' = "toggleMute" /\ error' = "none" /\ myWavDevice # 0) =>
           myWavDevice' = myWavDevice ]_vars
  /\ [](LET m == mute(St, TRUE)
        IN /\ myWavDevice # 0 => m.wavStatus = "paused"
           /\ myIsInitializedFlag => m.sdlStatus = "paused")

\* The overlay was paused by mute(true); toggleMute() then muted the sound:
\* the primary device is paused and the overlay is running.
C36_Witness ==
  /\ lastOp = "toggleMute" /\ lastArg = 0
  /\ error = "none"
  /\ myWavDevice # 0 /\ wavStatus = "playing"
  /\ myIsInitializedFlag /\ sdlStatus = "paused"
  /\ myMuteState

\* ------------------------------------------------------- joystick mappings
\* The value of a button or hat that takes no part in a mapping.
JOY_CTRL_NONE == -1

\* The most mappings a map is given.
MaxMappings == 2

EventModes == {"kEmulationMode", "kMenuMode"}
EventTypes == {"Event::ConsoleSelect", "Event::ConsoleReset"}

\* A key of the map: all six fields take part in its equality.
JoyMapping(mode, button, axis, adir, hat, hdir) ==
  [mode |-> mode, button |-> button, axis |-> axis, adir |-> adir,
   hat |-> hat, hdir |-> hdir]

JoyMappings ==
  {JoyMapping(mode, button, axis, adir, hat, hdir) :
     mode \in EventModes, button \in {JOY_CTRL_NONE, 0},
     axis \in {"JoyAxis::NONE", "JoyAxis::X"},
     adir \in {"JoyDir::NONE", "JoyDir::POS"},
     hat \in {-1, 0}, hdir \in {"JoyHatDir::CENTER", "JoyHatDir::UP"}}

\* The enumerations as JSON: each list pairs a value with what is written for it.
EventNames ==
  << << "Event::NoType", "NoType" >>,
     << "Event::ConsoleSelect", "ConsoleSelect" >>,
     << "Event::ConsoleReset", "ConsoleReset" >> >>
JoyAxisNames ==
  << << "JoyAxis::NONE", "null" >>, << "JoyAxis::X", "x" >> >>
JoyDirNames ==
  << << "JoyDir::NONE", "null" >>, << "JoyDir::POS", "positive" >> >>
JoyHatDirNames ==
  << << "JoyHatDir::CENTER", "center" >>, << "JoyHatDir::UP", "up" >> >>

\* The first pair whose component c is v, or the first pair of the list when
\* there is none.
PairOf(pairs, c, v) ==
  IF \E i \in DOMAIN pairs : pairs[i][c] = v
  THEN pairs[CHOOSE i \in DOMAIN pairs :
               /\ pairs[i][c] = v
               /\ \A j \in 1..(i - 1) : pairs[j][c] # v]
  ELSE pairs[1]
to_json(pairs, e) == PairOf(pairs, 1, e)[2]
from_json(pairs, j) == PairOf(pairs, 2, j)[1]

\* A JSON object is a function from its keys, json::object() the one
\* without keys; o[key] = value adds or replaces a member, as
\* myMap[mapping] = event does in the map.
Put(o, k, v) == [x \in DOMAIN o \cup {k} |-> IF x = k THEN v ELSE o[x]]
contains(o, k) == k \in DOMAIN o

\* add(event, mapping).
add(map, event, mapping) == Put(map, mapping, event)

\* erase(mapping).
erase(map, mapping) == [x \in DOMAIN map \ {mapping} |-> map[x]]

\* The object saveMapping writes for one item of the map.
saveItem(first, second) ==
  LET o0 == Put(EmptyMap, "event", to_json(EventNames, second))
      o1 == IF first.button # JOY_CTRL_NONE
            THEN Put(o0, "button", first.button)
            ELSE o0
      o2 == IF first.axis # "JoyAxis::NONE"
            THEN Put(Put(o1, "axis", to_json(JoyAxisNames, first.axis)),
                     "axisDirection", to_json(JoyDirNames, first.adir))
            ELSE o1
      o3 == IF first.hat # -1
            THEN Put(Put(o2, "hat", first.hat),
                     "hatDirection", to_json(JoyHatDirNames, first.hdir))
            ELSE o2
  IN o3

\* saveMapping(mode), the map iterated in the given order.
RECURSIVE saveMapping(_, _, _)
saveMapping(map, mode, order) ==
  IF order = << >> THEN << >>
  ELSE LET item == Head(order)
           rest == saveMapping(map, mode, Tail(order))
       IN IF item.mode # mode
          THEN rest
          ELSE << saveItem(item, map[item]) >> \o rest

\* One element of the array in loadMapping. r holds the map, the count i
\* and whether an exception has left the method: at() of a missing
\* direction is outside the try block, at("event") is inside it.
loadItem(r, eventMapping, mode) ==
  IF r.threw THEN r
  ELSE IF \/ contains(eventMapping, "axis") /\ ~contains(eventMapping, "axisDirection")
          \/ contains(eventMapping, "hat") /\ ~contains(eventMapping, "hatDirection")
       THEN [r EXCEPT !.threw = TRUE]
  ELSE LET button == IF contains(eventMapping, "button")
                     THEN eventMapping["button"] ELSE JOY_CTRL_NONE
           axis == IF contains(eventMapping, "axis")
                   THEN from_json(JoyAxisNames, eventMapping["axis"])
                   ELSE "JoyAxis::NONE"
           axisDirection == IF contains(eventMapping, "axis")
                            THEN from_json(JoyDirNames, eventMapping["axisDirection"])
                            ELSE "JoyDir::NONE"
           hat == IF contains(eventMapping, "hat") THEN eventMapping["hat"] ELSE -1
           hatDirection == IF contains(eventMapping, "hat")
                           THEN from_json(JoyHatDirNames, eventMapping["hatDirection"])
                           ELSE "JoyHatDir::CENTER"
       IN IF ~contains(eventMapping, "event")
          THEN r
          ELSE [r EXCEPT
                  !.map = add(@, from_json(EventNames, eventMapping["event"]),
                              JoyMapping(mode, button, axis, axisDirection,
                                         hat, hatDirection)),
                  !.i = @ + 1]

\* loadMapping(eventMappings, mode) on the map of r.
RECURSIVE loadMapping(_, _, _)
loadMapping(r, eventMappings, mode) ==
  IF eventMappings = << >> THEN r
  ELSE loadMapping(loadItem(r, Head(eventMappings), mode),
                   Tail(eventMappings), mode)

\* The orders in which the items of a hash map can be visited.
Orders(S) ==
  {order \in [1..Cardinality(S) -> S] :
     \A i, j \in 1..Cardinality(S) : order[i] = order[j] => i = j}

\* A step of the joystick map: the sound engine is not involved.
JoyCall(op) ==
  /\ lastOp' = op
  /\ lastArg' = 0
  /\ UNCHANGED << sound, cbpc, cbLen, mainPc, myImageList, myImageIdx, imageRead >>

\* The map is built first: add(event, mode, button, axis, adir, hat, hdir).
JoyAdd ==
  /\ lastOp \in {"SoundSDL2", "add", "erase"}
  /\ \E event \in EventTypes, mapping \in JoyMappings :
       /\ Cardinality(DOMAIN myMap \cup {mapping}) <= MaxMappings
       /\ myMap' = add(myMap, event, mapping)
  /\ UNCHANGED << joySaved, joyMode, joyLoaded, joyRet >>
  /\ JoyCall("add")

JoyErase ==
  /\ lastOp \in {"SoundSDL2", "add", "erase"}
  /\ \E mapping \in DOMAIN myMap : myMap' = erase(myMap, mapping)
  /\ UNCHANGED << joySaved, joyMode, joyLoaded, joyRet >>
  /\ JoyCall("erase")

\* Then it is saved for one mode ...
SaveMapping ==
  /\ lastOp \in {"SoundSDL2", "add", "erase"}
  /\ \E mode \in EventModes, order \in Orders(DOMAIN myMap) :
       /\ joySaved' = saveMapping(myMap, mode, order)
       /\ joyMode' = mode
  /\ UNCHANGED << myMap, joyLoaded, joyRet >>
  /\ JoyCall("saveMapping")

\* ... and a cleared map is loaded from what was saved, for the same mode.
\* saveMapping writes every direction with its axis or hat, so no exception
\* leaves loadMapping here.
LoadMapping ==
  /\ lastOp = "saveMapping"
  /\ LET r == loadMapping([map |-> EmptyMap, i |-> 0, threw |-> FALSE],
                          joySaved, joyMode)
     IN /\ joyLoaded' = r.map
        /\ joyRet' = r.i
  /\ UNCHANGED << myMap, joySaved, joyMode >>
  /\ JoyCall("loadMapping")

InitJoy ==
  Construct(CHOOSE settings \in Settings({TRUE}, {MaxPercent}, {"nearestNeightbour"}) : TRUE,
            TRUE, [NoArg EXCEPT !.b = TRUE, !.freq = 1])

NextJoy == JoyAdd \/ JoyErase \/ SaveMapping \/ LoadMapping

SpecJoy == InitJoy /\ [][NextJoy]_vars

\* The mappings of a map that have the given mode.
ModeMappings(map, mode) ==
  [mapping \in {k \in DOMAIN map : k.mode = mode} |-> map[mapping]]

\* C37: for any JoyMap m and mode, clearing a map and calling
\* loadMapping(m.saveMapping(mode), mode) yields exactly the mappings of m
\* that have that mode, each bound to the same event, and loadMapping
\* returns their number, also for mappings whose axis is NONE or whose hat
\* is unset.
C37_RoundTrip ==
  lastOp = "loadMapping" =>
    /\ joyLoaded = ModeMappings(myMap, joyMode)
    /\ joyRet = Cardinality(DOMAIN ModeMappings(myMap, joyMode))

\* ---------------------------------------------------- the snapshot browser
\* The most snapshot files one search of the snapshot directory finds.
MaxImages == 2

\* The index is not stepped beyond this.
MaxImageIdx == 3

\* The widget's width and the height of its image area, in pixels.
WidgetWidth == 4
ImageHeight == 2

\* The largest size_t. The checker's integers are 32 bits wide, so the largest
\* of those stands for it; no list or index of the model comes near it.
SIZE_MAX == 2147483647

\* a - 1 in size_t arithmetic.
SizeMinusOne(a) == IF a = 0 THEN SIZE_MAX ELSE a - 1

\* The widget: its image list, the current index, the last subscript of the
\* list that was evaluated.
Widget == [myImageList |-> myImageList, myImageIdx |-> myImageIdx,
           imageRead |-> imageRead]

\* myImageList[i]: the index, the size of the list at that moment, and
\* whether the program trapped. An index inside the list never traps; one
\* outside it is undefined behaviour, which either traps or goes on.
Subscripts(w, i) ==
  {[at |-> i, size |-> Len(w.myImageList), trap |-> trap] :
     trap \in IF i < Len(w.myImageList) THEN {FALSE} ELSE BOOLEAN}

\* getImageList(filename): the files found are appended to the list.
getImageList(w, files) == [w EXCEPT !.myImageList = @ \o files]

\* The n snapshot files that one search finds.
Found(search, n) == [i \in 1..n |-> << search, i >>]

\* parseProperties(node) with PNG support: n1 files match the cartridge
\* name, n2 match the file name. The results are the widgets it can end in.
parseProperties(w, n1, n2) ==
  LET w0 == [w EXCEPT !.myImageList = << >>, !.myImageIdx = 0,
                      !.imageRead = NoRead]
      w1 == getImageList(w0, Found("Cart_Name", n1))
      R1 == IF Len(w1.myImageList) > 0
            THEN {[w1 EXCEPT !.imageRead = r] : r \in Subscripts(w1, 0)}
            ELSE {w1}
      step2(v) ==
        LET w2 == getImageList(v, Found("NameWithExt", n2))
        IN IF Len(w2.myImageList) > 0
           THEN {[w2 EXCEPT !.imageRead = r] : r \in Subscripts(w2, 0)}
           ELSE {w2}
  IN UNION {step2(v) : v \in R1}

\* handleMouseUp(x, y, b, clickCount) with PNG support; isEnabled() is the
\* widget's flag at the time of the click.
handleMouseUp(w, isEnabled, x, y) ==
  IF isEnabled /\ x >= 0 /\ x < WidgetWidth /\ y >= 0 /\ y < ImageHeight
  THEN IF x < WidgetWidth \div 2
       THEN IF w.myImageIdx # 0
            THEN {[w EXCEPT !.myImageIdx = @ - 1, !.imageRead = r] :
                    r \in Subscripts(w, w.myImageIdx - 1)}
            ELSE {[w EXCEPT !.imageRead = NoRead]}
       ELSE IF w.myImageIdx < SizeMinusOne(Len(w.myImageList))
            THEN {[w EXCEPT !.myImageIdx = @ + 1, !.imageRead = r] :
                    r \in Subscripts(w, w.myImageIdx + 1)}
            ELSE {[w EXCEPT !.imageRead = NoRead]}
  ELSE {[w EXCEPT !.imageRead = NoRead]}

\* A step of the widget: the sound engine and the joystick map are not
\* involved. A program that trapped takes no further step.
WidgetCall(op, arg, w) ==
  /\ myImageList' = w.myImageList
  /\ myImageIdx' = w.myImageIdx
  /\ imageRead' = w.imageRead
  /\ lastOp' = op
  /\ lastArg' = arg
  /\ UNCHANGED << sound, cbpc, cbLen, mainPc,
                  myMap, joySaved, joyMode, joyLoaded, joyRet >>

ParseProperties ==
  /\ ~imageRead.trap
  /\ \E n1 \in 0..MaxImages, n2 \in 0..MaxImages :
       \E w \in parseProperties(Widget, n1, n2) :
         WidgetCall("parseProperties", n1 + n2, w)

HandleMouseUp ==
  /\ ~imageRead.trap
  /\ \E isEnabled \in BOOLEAN, x \in -1..WidgetWidth, y \in -1..ImageHeight :
       \E w \in handleMouseUp(Widget, isEnabled, x, y) :
         /\ w.myImageIdx <= MaxImageIdx
         /\ WidgetCall("handleMouseUp", x, w)

InitWidget == InitJoy

NextWidget == ParseProperties \/ HandleMouseUp

SpecWidget == InitWidget /\ [][NextWidget]_vars

\* C38: after any sequence of parseProperties and handleMouseUp events the
\* current image index is less than the number of images in the list, or 0
\* when the list is empty, and no subscript of the image list is out of
\* range, also on a click on the right half when the list is empty.
C38_IndexInRange ==
  /\ IF myImageList = << >>
     THEN myImageIdx = 0
     ELSE myImageIdx < Len(myImageList)
  /\ imageRead # NoRead =>
       imageRead.at >= 0 /\ imageRead.at < imageRead.size

====
